---- MODULE Spec2Model ----
(***************************************************************************)
(* Input dispatch core of the compositor (src/input/mod.rs):               *)
(* State::process_input_event, State::handle_action, State::surface_under  *)
(* and the per-seat SupressedKeys / Devices bags.                          *)
(*                                                                         *)
(* The model follows the default build (feature "debug" off).  Every       *)
(* handler is one action; what a handler emits (protocol events, calls     *)
(* into Shell, the event loop or the backend) is recorded, in order, in    *)
(* the variable fx, which holds the emissions of the last handler only.    *)
(***************************************************************************)
EXTENDS Integers, Sequences, FiniteSets, TLC

(***************************************************************************)
(* Bounds of the model.                                                    *)
(***************************************************************************)
\* key-downs that may be outstanding at one time, over all keyboards of the seat
MaxHeld == 4
\* width and height of an output, and the largest pointer delta per axis
OutputSize == 2
\* workspaces of an output
MaxWorkspaces == 3
MaxDelta == 1
\* the range of the raw coordinates of an absolute pointing device
AbsRange == 3

(***************************************************************************)
(* Keysyms named by the source (X11 keysym values).                        *)
(***************************************************************************)
KEY_Left == 65361
KEY_Up == 65362
KEY_Right == 65363
KEY_Down == 65364
KEY_h == 104
KEY_j == 106
KEY_k == 107
KEY_l == 108
KEY_H == 72
KEY_J == 74
KEY_K == 75
KEY_L == 76
KEY_XF86Switch_VT_1 == 269024769
KEY_XF86Switch_VT_12 == 269024780
\* the resize repeat timer: delay of the first firing and of the later ones
RepeatDelayMs == 200
RepeatRateMs == 25

(***************************************************************************)
(* The keyboard of the model: an xkb keymap is configuration, this is one. *)
(* Keycodes: 133 Super_L, 50 Shift_L, 37 Control_L, 43 h, 27 r, 53 x,      *)
(* 69 F3.  Control+F3 is the level that yields XF86Switch_VT_3.            *)
(***************************************************************************)
KeyCodes == {133, 50, 37, 43, 27, 53, 69}

\* the physical keyboards of the seat: a full keyboard and a second device
\* with the key x, so that this keycode can be down twice
Keyboards == {"kbd0", "kbd1"}
KeysOf(kbd) == IF kbd = "kbd0" THEN KeyCodes ELSE {53}

AllMods == {"ctrl", "alt", "logo", "shift"}

\* the modifier a keycode drives ("none" for an ordinary key)
ModifierOf(code) ==
    CASE code = 133 -> "logo"
      [] code = 50 -> "shift"
      [] code = 37 -> "ctrl"
      [] OTHER -> "none"

\* KeysymHandle::raw_syms: the keysyms of the keycode with no modifier applied
raw_syms(code) ==
    CASE code = 133 -> {65515}
      [] code = 50 -> {65505}
      [] code = 37 -> {65507}
      [] code = 43 -> {KEY_h}
      [] code = 27 -> {114}
      [] code = 53 -> {120, 121}
      [] code = 69 -> {65472}
      [] OTHER -> {}

\* KeysymHandle::modified_sym: the keysym under the current modifier state
modified_sym(code, mods) ==
    CASE code = 43 -> IF "shift" \in mods THEN KEY_H ELSE KEY_h
      [] code = 27 -> IF "shift" \in mods THEN 82 ELSE 114
      [] code = 53 -> IF "shift" \in mods THEN 88 ELSE 120
      [] code = 69 -> IF "ctrl" \notin mods THEN 65472
                      ELSE IF "shift" \in mods THEN KEY_XF86Switch_VT_12
                      ELSE IF "logo" \in mods THEN KEY_XF86Switch_VT_1
                      ELSE KEY_XF86Switch_VT_1 + 2
      [] code = 133 -> 65515
      [] code = 50 -> 65505
      [] code = 37 -> 65507
      [] OTHER -> 0

(***************************************************************************)
(* Actions, key patterns and the configured bindings.                      *)
(***************************************************************************)
NoAction == [a |-> "None"]
Pattern(m, k) == [modifiers |-> m, key |-> k]

\* a binding table in which every pattern has a modifier, in the order the
\* filter iterates it
DefaultBindings ==
    << [binding |-> Pattern({"logo"}, 120), action |-> [a |-> "SwapWindow"]],
       [binding |-> Pattern({"logo"}, 121), action |-> [a |-> "Close"]],
       [binding |-> Pattern({"logo"}, 114), action |-> [a |-> "Resizing", dir |-> "Outwards"]],
       [binding |-> Pattern({"logo", "shift"}, 114), action |-> [a |-> "Resizing", dir |-> "Inwards"]],
       [binding |-> Pattern({"logo", "shift"}, KEY_h), action |-> [a |-> "Move", dir |-> "Left"]],
       [binding |-> Pattern({"ctrl"}, 65472), action |-> [a |-> "Close"]],
       [binding |-> Pattern({"logo", "ctrl"}, 65507), action |-> [a |-> "SwapWindow"]] >>

\* a binding table whose patterns have no modifiers
UnmodifiedBindings ==
    << [binding |-> Pattern({}, 65472), action |-> [a |-> "Move", dir |-> "Right"]],
       [binding |-> Pattern({}, 120), action |-> [a |-> "SwapWindow"]],
       [binding |-> Pattern({}, 114), action |-> [a |-> "Resizing", dir |-> "Outwards"]] >>

WorkspaceHandles == {1, 2}

\* shell.outputs, in order
Outputs == <<"A", "B">>

(***************************************************************************)
(* Devices: the device registry of a seat                                  *)
(***************************************************************************)
\* common.seats(), in order
Seats == <<"seat0", "seat1">>

SeatSet == {Seats[i] : i \in 1..Len(Seats)}

\* the ids (Device::id) of the input devices the backend knows
DeviceIds == {"kbd", "mouse", "combo", "touch"}

\* the devices the backend announces: one per id, and "combo_kbd", a device
\* that reports the id "combo" and has the keyboard capability only
InputDevices == DeviceIds \cup {"combo_kbd"}

\* Device::id
device_id(device) == IF device = "combo_kbd" THEN "combo" ELSE device

Capabilities == <<"Keyboard", "Pointer">>

\* Device::has_capability
has_capability(device, c) ==
    CASE device = "kbd" -> c = "Keyboard"
      [] device = "mouse" -> c = "Pointer"
      [] device = "combo" -> TRUE
      [] device = "combo_kbd" -> c = "Keyboard"
      [] device = "touch" -> FALSE

\* map.values().flatten().all(|has| *c != *has)
NoDeviceHas(map, c) ==
    \A d \in DOMAIN map : \A i \in 1..Len(map[d]) : map[d][i] # c

\* Devices::add_device: the registry after the insert, and the capabilities
\* no device of the registry had before it
add_device(map, device) ==
    LET id == device_id(device)
        caps == SelectSeq(Capabilities, LAMBDA c : has_capability(device, c))
        new_caps == SelectSeq(caps, LAMBDA c : NoDeviceHas(map, c))
    IN  [map |-> [d \in DOMAIN map \cup {id} |->
                     IF d = id THEN caps ELSE map[d]],
         caps |-> new_caps]

\* Devices::has_device
has_device(map, device) == device_id(device) \in DOMAIN map

\* Devices::remove_device: the registry after the removal, and the
\* capabilities no remaining device has
remove_device(map, device) ==
    LET id == device_id(device)
        removed == IF id \in DOMAIN map THEN map[id] ELSE <<>>
        rest == [d \in DOMAIN map \ {id} |-> map[d]]
    IN  [map |-> rest,
         caps |-> SelectSeq(removed, LAMBDA c : NoDeviceHas(rest, c))]

\* the loop of InputEvent::DeviceRemoved over the seats from the i-th on:
\* the first seat that has the device loses it, and the loop ends
RECURSIVE RemoveFromSeats(_, _, _)
RemoveFromSeats(devs, device, i) ==
    IF i > Len(Seats) THEN [devices |-> devs, caps |-> <<>>]
    ELSE IF has_device(devs[Seats[i]], device)
         THEN [devices |-> [devs EXCEPT ![Seats[i]] = remove_device(@, device).map],
               caps |-> remove_device(devs[Seats[i]], device).caps]
         ELSE RemoveFromSeats(devs, device, i + 1)

VARIABLES
    active_output,   \* ActiveOutput of the seat
    active_num,      \* output -> index of its active workspace
    workspace_layout, \* config.static_conf.workspace_layout
    key_bindings,    \* config.static_conf.key_bindings, in iteration order
    held,        \* keycode -> number of keyboards of the seat holding it down
    overview,    \* Shell::overview_mode
    resize,      \* Shell::resize_mode
    suppressed,  \* SupressedKeys of the seat: sequence of [code, token], token 0 = None
    timers,      \* repeat timers registered on the event loop: token -> record
                 \* (delay: time to the next firing; fired: it has fired before)
    pointer_location, \* PointerHandle::current_location of the seat pointer
    icpt,        \* keycodes with an intercepted key-down and no key-up since
    devices,     \* seat -> Devices of the seat: device id -> capabilities
    scene,       \* what a button event finds under the pointer
    last,        \* what the last handler was given and what it returned
    fx           \* what the last handler emitted, in order

vars == <<active_output, active_num, workspace_layout, key_bindings,
          held, overview, resize, suppressed, timers, pointer_location, icpt,
          devices, scene, last, fx>>

(***************************************************************************)
(* Shell's modal state.  Shell is not part of src/; the two setters are    *)
(* modelled from the specification's data model (OverviewMode and          *)
(* ResizeMode are None or Started) and its mode-entry/exit laws: a         *)
(* Started overview mode ends only through its exit conditions, so a       *)
(* request to start one while one is Started leaves it alone; a resize     *)
(* mode is replaced by whatever is set.                                    *)
(***************************************************************************)
OverviewNone == [t |-> "None"]
ResizeNone == [t |-> "None"]

set_overview_mode(ov, trigger) ==
    IF trigger = OverviewNone THEN OverviewNone
    ELSE IF ov.t = "None" THEN trigger ELSE ov

set_resize_mode(rz, enabled) ==
    IF enabled.t = "None" THEN ResizeNone
    ELSE [t |-> "Started", pattern |-> enabled.pattern, dir |-> enabled.dir]

\* ResizeEdge::flip_direction
flip_direction(edge) ==
    CASE edge = "LEFT" -> "RIGHT"
      [] edge = "RIGHT" -> "LEFT"
      [] edge = "TOP" -> "BOTTOM"
      [] edge = "BOTTOM" -> "TOP"

(***************************************************************************)
(* SupressedKeys                                                           *)
(***************************************************************************)
\* SupressedKeys::add: push (raw keycode, token)
SupressedAdd(keys, code, token) == Append(keys, [code |-> code, token |-> token])

\* the tokens (Some only) of a sequence of entries, in order
RECURSIVE TokensOf(_)
TokensOf(entries) ==
    IF entries = <<>> THEN <<>>
    ELSE (IF Head(entries).token = 0 THEN <<>> ELSE <<Head(entries).token>>)
         \o TokensOf(Tail(entries))

\* a variant of SupressedFilter that drains an entry only if it carries a
\* token
SupressedFilterKeepsUntimed(keys, code) ==
    LET removed == SelectSeq(keys, LAMBDA e : e.code = code /\ e.token # 0)
        remaining == SelectSeq(keys, LAMBDA e : ~(e.code = code /\ e.token # 0))
        tokens == TokensOf(removed)
    IN  [remaining |-> remaining, tokens |-> tokens, some |-> tokens # <<>>]

\* a variant of SupressedFilter whose partition takes the entries of the
\* other keycodes
SupressedFilterOtherKeys(keys, code) ==
    LET removed == SelectSeq(keys, LAMBDA e : e.code # code)
        remaining == SelectSeq(keys, LAMBDA e : e.code = code)
        tokens == TokensOf(removed)
    IN  [remaining |-> remaining, tokens |-> tokens, some |-> tokens # <<>>]

\* SupressedKeys::filter: drains the entries of the keycode; the result is
\* None (some = FALSE) when the drained entries carry no token
SupressedFilter(keys, code) ==
    LET removed == SelectSeq(keys, LAMBDA e : e.code = code)
        remaining == SelectSeq(keys, LAMBDA e : e.code # code)
        tokens == TokensOf(removed)
    IN  [remaining |-> remaining, tokens |-> tokens, some |-> tokens # <<>>]

(***************************************************************************)
(* The keyboard filter, rule by rule                                       *)
(***************************************************************************)
VtNumberZeroBased(sym) == sym - KEY_XF86Switch_VT_1

\* the argument of switch_vt for a XF86Switch_VT_n keysym
VtNumber(sym) == sym - KEY_XF86Switch_VT_1 + 1

\* a variant of ModifierReleased that waits for all of `required` to be released
ModifierReleasedAll(required, modifiers) ==
    required # {} /\ required \cap modifiers = {}

\* some modifier of `required` is not held any more
ModifierReleased(required, modifiers) ==
    \/ ("ctrl" \in required /\ "ctrl" \notin modifiers)
    \/ ("alt" \in required /\ "alt" \notin modifiers)
    \/ ("logo" \in required /\ "logo" \notin modifiers)
    \/ ("shift" \in required /\ "shift" \notin modifiers)

\* leave move overview mode, if any modifier was released
LeaveMoveOverview(ov, modifiers) ==
    IF ov.t = "KeyboardMove" /\ ModifierReleased(ov.mods, modifiers)
    THEN set_overview_mode(ov, OverviewNone)
    ELSE ov

\* a variant of SwapLeaves that does not look at the key of the pattern
SwapLeavesModifiersOnly(ov, modifiers, code, state) ==
    ov.t = "KeyboardSwap" /\ ModifierReleased(ov.pattern.modifiers, modifiers)

\* the condition under which swap overview mode is left
SwapLeaves(ov, modifiers, code, state) ==
    /\ ov.t = "KeyboardSwap"
    /\ \/ ModifierReleased(ov.pattern.modifiers, modifiers)
       \/ (ov.pattern.key \in raw_syms(code) /\ state = "Released")

\* a variant of SwapCommit that compares the stored workspace with itself
SwapCommitSameWorkspace(old, env) ==
    IF env.focus /\ env.hasDesc /\ env.active \in env.spaces
    THEN << [e |-> "swap_trees", from |-> env.active, to |-> 0] >>
         \o (IF env.some THEN << [e |-> "insert_idle_set_focus"] >> ELSE <<>>)
         \o << [e |-> "refresh_focus_stack", ws |-> env.active] >>
    ELSE <<>>

\* what leaving swap mode does to the layout, as the calls it makes.
\* env: focus (keyboard.current_focus is Some), hasDesc (node_desc of the
\* focus on the active workspace is Some), active (handle of the active
\* workspace), spaces (handles of the existing workspaces), some (the tree
\* operation returns a focus target), empty (the target tiling tree is empty)
SwapCommit(old, env) ==
    IF env.focus
    THEN IF ~env.hasDesc THEN <<>>
         ELSE IF old.ws # env.active
              THEN IF old.ws \in env.spaces /\ env.active \in env.spaces
                   THEN << [e |-> "swap_trees", from |-> old.ws, to |-> env.active] >>
                        \o (IF env.some THEN << [e |-> "insert_idle_set_focus"] >> ELSE <<>>)
                        \o << [e |-> "refresh_focus_stack", ws |-> old.ws],
                              [e |-> "refresh_focus_stack", ws |-> env.active] >>
                   ELSE <<>>
              ELSE IF env.active \in env.spaces
                   THEN << [e |-> "swap_trees", from |-> env.active, to |-> 0] >>
                        \o (IF env.some THEN << [e |-> "insert_idle_set_focus"] >> ELSE <<>>)
                        \o << [e |-> "refresh_focus_stack", ws |-> env.active] >>
                   ELSE <<>>
    ELSE IF env.active # old.ws /\ old.ws \in env.spaces /\ env.active \in env.spaces
            /\ env.empty
         THEN << [e |-> "move_tree", from |-> old.ws, to |-> env.active] >>
              \o (IF env.some THEN << [e |-> "insert_idle_set_focus"] >> ELSE <<>>)
              \o << [e |-> "refresh_focus_stack", ws |-> old.ws] >>
         ELSE <<>>

\* the first binding equal to `pattern` whose action is Resizing, 0 if none
RECURSIVE FindResizing(_, _)
FindResizing(pattern, i) ==
    IF i > Len(key_bindings) THEN 0
    ELSE IF key_bindings[i].binding = pattern /\ key_bindings[i].action.a = "Resizing"
         THEN i
         ELSE FindResizing(pattern, i + 1)

\* a variant of ResizeMaintenance that looks at the released key only
ResizeMaintenanceKeyOnly(rz, modifiers, code, state) ==
    IF rz.t # "Started" THEN rz
    ELSE IF state = "Released" /\ rz.pattern.key \in raw_syms(code)
         THEN set_resize_mode(rz, ResizeNone)
         ELSE rz

\* leave or update resize mode, if modifiers changed or initial key was released
ResizeMaintenance(rz, modifiers, code, state) ==
    IF rz.t # "Started" THEN rz
    ELSE IF state = "Released" /\ rz.pattern.key \in raw_syms(code)
         THEN set_resize_mode(rz, ResizeNone)
         ELSE IF rz.pattern.modifiers # modifiers
              THEN LET new_pattern == Pattern(modifiers, rz.pattern.key)
                       i == FindResizing(new_pattern, 1)
                   IN  IF i = 0 THEN set_resize_mode(rz, ResizeNone)
                       ELSE set_resize_mode(rz, [t |-> "Started", pattern |-> new_pattern,
                                                 dir |-> key_bindings[i].action.dir])
              ELSE rz

\* a variant of resize_edge with the horizontal edges exchanged
resize_edgeMirrored(sym) ==
    CASE sym \in {KEY_Left, KEY_h, KEY_H} -> "RIGHT"
      [] sym \in {KEY_Down, KEY_j, KEY_J} -> "BOTTOM"
      [] sym \in {KEY_Up, KEY_k, KEY_K} -> "TOP"
      [] sym \in {KEY_Right, KEY_l, KEY_L} -> "LEFT"
      [] OTHER -> "NONE"

\* the resize edge an arrow or h/j/k/l keysym stands for, "NONE" otherwise
resize_edge(sym) ==
    CASE sym \in {KEY_Left, KEY_h, KEY_H} -> "LEFT"
      [] sym \in {KEY_Down, KEY_j, KEY_J} -> "BOTTOM"
      [] sym \in {KEY_Up, KEY_k, KEY_K} -> "TOP"
      [] sym \in {KEY_Right, KEY_l, KEY_L} -> "RIGHT"
      [] OTHER -> "NONE"

\* a variant of FindBinding that matches key releases as well
RECURSIVE FindBindingAnyState(_, _, _, _)
FindBindingAnyState(modifiers, code, state, i) ==
    IF i > Len(key_bindings) THEN 0
    ELSE IF /\ key_bindings[i].binding.modifiers = modifiers
            /\ key_bindings[i].binding.key \in raw_syms(code)
         THEN i
         ELSE FindBindingAnyState(modifiers, code, state, i + 1)

\* the first binding that matches a pressed key, 0 if none
RECURSIVE FindBinding(_, _, _, _)
FindBinding(modifiers, code, state, i) ==
    IF i > Len(key_bindings) THEN 0
    ELSE IF /\ state = "Pressed"
            /\ key_bindings[i].binding.modifiers = modifiers
            /\ key_bindings[i].binding.key \in raw_syms(code)
         THEN i
         ELSE FindBinding(modifiers, code, state, i + 1)

\* a variant of GlobalShortcut that does not ask the inhibitor
GlobalShortcutUninhibited(shortcuts_inhibited, modifiers, code, state) ==
    FindBinding(modifiers, code, state, 1)

\* handle the rest of the global shortcuts: the binding the key triggers, 0 if none
GlobalShortcut(shortcuts_inhibited, modifiers, code, state) ==
    IF ~shortcuts_inhibited THEN FindBinding(modifiers, code, state, 1) ELSE 0

\* a variant of ResizeKeyEdge that lets a global shortcut come first
ResizeKeyEdgeAfterShortcuts(rz, modifiers, code, state, env) ==
    IF GlobalShortcut(env.inhibited, modifiers, code, state) # 0 THEN "NONE"
    ELSE IF rz.t = "Started" THEN resize_edge(modified_sym(code, modifiers))
    ELSE "NONE"

\* special case resizing with regards to arrow keys: the edge the key stands
\* for in resize mode; this comes before every later rule
ResizeKeyEdge(rz, modifiers, code, state, env) ==
    IF rz.t = "Started" THEN resize_edge(modified_sym(code, modifiers)) ELSE "NONE"

\* a token the event loop has not handed out
FreshToken(tm) == CHOOSE t \in 1..(MaxHeld + 1) : t \notin DOMAIN tm

\* a variant of RemoveTimers that leaves every source on the loop
RemoveTimersKeepsAll(tm, tokens) == tm

\* the event loop without the sources of `tokens`
RemoveTimers(tm, tokens) ==
    [t \in DOMAIN tm \ {tokens[i] : i \in 1..Len(tokens)} |-> tm[t]]

RemoveFx(tokens) == [i \in 1..Len(tokens) |-> [e |-> "loop_remove", token |-> tokens[i]]]

Forward == [kind |-> "Forward", action |-> NoAction, pattern |-> Pattern({}, 0)]
Intercept(action, pattern) == [kind |-> "Intercept", action |-> action, pattern |-> pattern]

\* the modifier mask xkb reports for the keys held down
ModsOf(h) == {ModifierOf(c) : c \in {k \in KeyCodes : h[k] > 0}} \ {"none"}

\* the closure given to keyboard.input.  st: overview, resize, suppressed,
\* timers.  env: inhibited (shortcuts_inhibited), rep (needs_key_repetition)
\* and the fields SwapCommit reads.  The result carries the FilterResult and
\* the calls made.
KeyFilter(st, code, state, modifiers, env) ==
    LET ov1 == LeaveMoveOverview(st.overview, modifiers)
        swap == SwapLeaves(ov1, modifiers, code, state)
        ov2 == IF swap THEN set_overview_mode(ov1, OverviewNone) ELSE ov1
        fx2 == IF swap THEN SwapCommit(ov1.desc, env) ELSE <<>>
        rz3 == ResizeMaintenance(st.resize, modifiers, code, state)
        sym == modified_sym(code, modifiers)
        edge0 == ResizeKeyEdge(rz3, modifiers, code, state, env)
        drained == SupressedFilter(st.suppressed, code)
        base == [overview |-> ov2, resize |-> rz3, suppressed |-> st.suppressed,
                 timers |-> st.timers, fx |-> fx2, result |-> Forward]
    IN  IF edge0 # "NONE"
        THEN \* special case resizing with regards to arrow keys
             LET edge == IF rz3.dir = "Inwards" THEN flip_direction(edge0) ELSE edge0
                 action == [a |-> "_ResizingInternal", dir |-> rz3.dir, edge |-> edge,
                            state |-> state]
                 key_pattern == Pattern(modifiers, code)
             IN  IF state = "Released"
                 THEN [base EXCEPT !.suppressed = drained.remaining,
                                   !.timers = RemoveTimers(st.timers, drained.tokens),
                                   !.fx = fx2 \o RemoveFx(drained.tokens),
                                   !.result = Intercept(action, key_pattern)]
                 ELSE LET token == IF env.rep THEN FreshToken(st.timers) ELSE 0
                      IN  [base EXCEPT
                             !.suppressed = SupressedAdd(st.suppressed, code, token),
                             !.timers = IF token = 0 THEN st.timers
                                        ELSE [t \in DOMAIN st.timers \cup {token} |->
                                                IF t = token
                                                THEN [code |-> code, action |-> action,
                                                      pattern |-> key_pattern,
                                                      delay |-> RepeatDelayMs,
                                                      fired |-> FALSE]
                                                ELSE st.timers[t]],
                             !.fx = fx2 \o (IF token = 0 THEN <<>>
                                           ELSE << [e |-> "insert_source", token |-> token,
                                                    delay |-> RepeatDelayMs] >>),
                             !.result = Intercept(action, key_pattern)]
        ELSE IF state = "Released" /\ drained.some
        THEN \* skip released events for initially surpressed keys
             [base EXCEPT !.suppressed = drained.remaining,
                          !.timers = RemoveTimers(st.timers, drained.tokens),
                          !.fx = fx2 \o RemoveFx(drained.tokens),
                          !.result = Intercept(NoAction, Pattern({}, 0))]
        ELSE LET sk5 == IF state = "Released" THEN drained.remaining ELSE st.suppressed
             IN  IF state = "Pressed" /\ sym >= KEY_XF86Switch_VT_1
                    /\ sym <= KEY_XF86Switch_VT_12
                 THEN \* handle VT switches
                      [base EXCEPT !.suppressed = SupressedAdd(sk5, code, 0),
                                   !.fx = fx2 \o << [e |-> "switch_vt",
                                                     vt |-> VtNumber(sym)] >>
                                              \o (IF env.vt_fail
                                                  THEN << [e |-> "error"] >> ELSE <<>>),
                                   !.result = Intercept(NoAction, Pattern({}, 0))]
                 ELSE LET i == GlobalShortcut(env.inhibited, modifiers, code, state)
                      IN  IF i # 0
                          THEN [base EXCEPT !.suppressed = SupressedAdd(sk5, code, 0),
                                            !.result = Intercept(key_bindings[i].action,
                                                                 key_bindings[i].binding)]
                          ELSE [base EXCEPT !.suppressed = sk5]

(***************************************************************************)
(* State::handle_action                                                    *)
(***************************************************************************)
\* position of an output in shell.outputs, 0 if it is not there
IndexOf(o) ==
    IF \E i \in 1..Len(Outputs) : Outputs[i] = o
    THEN CHOOSE i \in 1..Len(Outputs) : Outputs[i] = o /\ \A j \in 1..(i - 1) : Outputs[j] # o
    ELSE 0

\* a variant of NextOutputOf that goes on with the first output after the last
NextOutputOfWrapping(current) ==
    LET i == IndexOf(current)
    IN  IF i = 0 THEN "" ELSE Outputs[(i % Len(Outputs)) + 1]

\* outputs.iter().skip_while(|o| o != current).skip(1).next(); "" if None
NextOutputOf(current) ==
    LET i == IndexOf(current)
    IN  IF i # 0 /\ i < Len(Outputs) THEN Outputs[i + 1] ELSE ""

\* outputs.iter().rev().skip_while(|o| o != current).skip(1).next(); "" if None
PrevOutputOf(current) ==
    LET i == IndexOf(current)
    IN  IF i > 1 THEN Outputs[i - 1] ELSE ""

\* what the collaborators answer during one dispatch.  fullscreen: the active
\* workspace has a fullscreen window on the output; move: result of
\* move_current_element; focused, tiled: the focus stack has a last window,
\* which is tiled; descWs: workspace of node_desc(keyboard focus), 0 if the
\* keyboard has no focus or the focus no descriptor; mcw_ws, mcw_out: result
\* of Shell::move_current_window towards a workspace, towards an output;
\* act_ws, act_out: result of Shell::activate on the current output, on
\* another output
DefaultEnv ==
    [fullscreen |-> FALSE, move |-> "Done", focused |-> FALSE, tiled |-> FALSE,
     descWs |-> 0, mcw_ws |-> "OkNone", mcw_out |-> "OkNone",
     act_ws |-> "OkNone", act_out |-> "OkNone", next_focus |-> "Handled"]

\* Shell is not part of src/.  Shell::activate(output, idx) is modelled from
\* the specification: it fails or returns an optional pointer position; an
\* index past the workspaces of the output always fails; on success idx is
\* the active workspace of the output.
ActivateAnswer(idx, answer) == IF idx >= MaxWorkspaces THEN "Err" ELSE answer

activate(num, output, idx, answer) ==
    IF answer = "Err" THEN num ELSE [num EXCEPT ![output] = idx]

\* workspaces.len(output)
WorkspaceLen(output) == MaxWorkspaces

WorkspaceIndexZeroBased(n) == n

\* the workspace index a number key stands for
WorkspaceIndex(n) == IF n = 0 THEN 9 ELSE n - 1

McwResults == {"Err", "OkNone", "OkSome"}

MotionFx(result) ==
    IF result = "OkSome" THEN << [e |-> "motion", focus |-> "None", synthetic |-> TRUE] >>
    ELSE <<>>

WorkspaceFallbackPrevious(x) == "PreviousOutput"

\* a variant of WorkspaceFallback that sends a failed NextWorkspace through
\* PreviousWorkspace
WorkspaceFallbackViaPreviousWorkspace(x) ==
    IF x = "NextWorkspace" THEN "PreviousWorkspace" ELSE "PreviousOutput"

\* the action a failed NextWorkspace / PreviousWorkspace falls back to
WorkspaceFallback(x) == IF x = "NextWorkspace" THEN "NextOutput" ELSE "PreviousOutput"

\* a variant of PreviousWorkspaceFallback whose second branch is a next-output action
PreviousWorkspaceFallbackNextOutput(x) ==
    IF x = "MoveToNextWorkspace" THEN "MoveToPreviousOutput" ELSE "SendToNextOutput"

\* the action a failed MoveToPreviousWorkspace / SendToPreviousWorkspace falls back to
PreviousWorkspaceFallback(x) ==
    IF x = "MoveToNextWorkspace" THEN "MoveToPreviousOutput" ELSE "SendToPreviousOutput"

\* the action a failed MoveToNextWorkspace / SendToNextWorkspace falls back to
NextWorkspaceFallback(x) ==
    IF x = "MoveToNextWorkspace" THEN "MoveToNextOutput" ELSE "SendToNextOutput"

\* a variant of FocusNavigation that takes every layout for horizontal
FocusNavigationHorizontal(focus, layout) ==
    CASE focus = "Left" -> "PreviousWorkspace"
      [] focus = "Right" -> "NextWorkspace"
      [] focus = "Up" -> "PreviousOutput"
      [] focus = "Down" -> "NextOutput"
      [] OTHER -> ""

\* the action Focus(focus) turns into on FocusResult::None, "" if none
FocusNavigation(focus, layout) ==
    CASE (focus = "Left" /\ layout = "Horizontal")
           \/ (focus = "Up" /\ layout = "Vertical") -> "PreviousWorkspace"
      [] (focus = "Right" /\ layout = "Horizontal")
           \/ (focus = "Down" /\ layout = "Vertical") -> "NextWorkspace"
      [] (focus = "Left" /\ layout = "Vertical")
           \/ (focus = "Up" /\ layout = "Horizontal") -> "PreviousOutput"
      [] (focus = "Right" /\ layout = "Vertical")
           \/ (focus = "Down" /\ layout = "Horizontal") -> "NextOutput"
      [] OTHER -> ""

\* a variant of MoveFurtherAction that takes every layout for horizontal
MoveFurtherActionHorizontal(direction, layout) ==
    CASE direction = "Left" -> "MoveToPreviousWorkspace"
      [] direction = "Right" -> "MoveToNextWorkspace"
      [] direction = "Up" -> "MoveToPreviousOutput"
      [] direction = "Down" -> "MoveToNextOutput"

\* the action Move(direction) turns into on MoveResult::MoveFurther
MoveFurtherAction(direction, layout) ==
    CASE (direction = "Left" /\ layout = "Horizontal")
           \/ (direction = "Up" /\ layout = "Vertical") -> "MoveToPreviousWorkspace"
      [] (direction = "Right" /\ layout = "Horizontal")
           \/ (direction = "Down" /\ layout = "Vertical") -> "MoveToNextWorkspace"
      [] (direction = "Left" /\ layout = "Vertical")
           \/ (direction = "Up" /\ layout = "Horizontal") -> "MoveToPreviousOutput"
      [] (direction = "Right" /\ layout = "Vertical")
           \/ (direction = "Down" /\ layout = "Horizontal") -> "MoveToNextOutput"

Max(a, b) == IF a > b THEN a ELSE b

\* a variant of SwapWindowGrabs that does not ask for the keyboard focus
SwapWindowGrabsUnfocused(env) == ~env.fullscreen

\* SwapWindow goes on to the grab: no fullscreen window on the active
\* output, and the keyboard focus has a node descriptor on the workspace
SwapWindowGrabs(env) == ~env.fullscreen /\ env.descWs # 0

\* sh: overview, resize, active_output, active_num, layout.  The result is sh
\* after the action, with the calls made in fx.
RECURSIVE handle_action(_, _, _, _, _)
handle_action(action, pattern, direction, sh, env) ==
    LET out == [overview |-> sh.overview, resize |-> sh.resize,
                active_output |-> sh.active_output, active_num |-> sh.active_num,
                layout |-> sh.layout,
                fx |-> << [e |-> "handle_action", action |-> action] >>]
        current_output == sh.active_output
        a == action.a
    IN  CASE a = "Terminate" ->
               [out EXCEPT !.fx = @ \o << [e |-> "should_stop"] >>]
          [] a = "Close" ->
               [out EXCEPT !.fx = @ \o (IF env.focused THEN << [e |-> "send_close"] >>
                                        ELSE <<>>)]
          [] a = "Workspace" ->
               LET idx == WorkspaceIndex(action.n)
               IN  [out EXCEPT
                      !.fx = @ \o << [e |-> "activate", output |-> current_output,
                                      idx |-> idx] >>,
                      !.active_num = activate(sh.active_num, current_output, idx,
                                              ActivateAnswer(idx, env.act_ws))]
          [] a \in {"NextWorkspace", "PreviousWorkspace"} ->
               LET idx == IF a = "NextWorkspace" THEN sh.active_num[current_output] + 1
                          ELSE Max(sh.active_num[current_output] - 1, 0)
                   call == [e |-> "activate", output |-> current_output, idx |-> idx]
                   answer == ActivateAnswer(idx, env.act_ws)
                   r == handle_action([a |-> WorkspaceFallback(a)], pattern, direction,
                                      sh, env)
               IN  IF answer = "Err"
                   THEN [r EXCEPT !.fx = out.fx \o <<call>> \o r.fx]
                   ELSE [out EXCEPT !.fx = @ \o <<call>>,
                                    !.active_num = activate(sh.active_num, current_output,
                                                            idx, answer)]
          [] a = "LastWorkspace" ->
               LET idx == Max(WorkspaceLen(current_output) - 1, 0)
               IN  [out EXCEPT
                      !.fx = @ \o << [e |-> "activate", output |-> current_output,
                                      idx |-> idx] >>,
                      !.active_num = activate(sh.active_num, current_output, idx,
                                              ActivateAnswer(idx, env.act_ws))]
          [] a \in {"MoveToWorkspace", "SendToWorkspace"} ->
               [out EXCEPT !.fx = @ \o
                   << [e |-> "move_current_window", from |-> current_output,
                       to |-> current_output, idx |-> WorkspaceIndex(action.n),
                       follow |-> (a = "MoveToWorkspace"), dir |-> "None"] >>]
          [] a \in {"MoveToLastWorkspace", "SendToLastWorkspace"} ->
               [out EXCEPT !.fx = @ \o
                   << [e |-> "move_current_window", from |-> current_output,
                       to |-> current_output,
                       idx |-> Max(WorkspaceLen(current_output) - 1, 0),
                       follow |-> (a = "MoveToLastWorkspace"), dir |-> "None"] >>]
          [] a \in {"NextOutput", "PreviousOutput"} ->
               LET other == IF a = "NextOutput" THEN NextOutputOf(current_output)
                            ELSE PrevOutputOf(current_output)
                   call == [e |-> "activate", output |-> other,
                            idx |-> sh.active_num[other]]
                   set == [e |-> "set_active_output", output |-> other]
               IN  IF other = "" THEN out
                   ELSE IF env.act_out = "OkSome"
                        THEN [out EXCEPT !.active_output = other,
                                         !.fx = @ \o << call, set >> \o MotionFx("OkSome")]
                        ELSE IF env.act_out = "OkNone"
                             THEN [out EXCEPT !.active_output = other,
                                              !.fx = @ \o << call, set >>]
                             ELSE [out EXCEPT !.fx = @ \o <<call>>]
          [] a \in {"MoveToNextWorkspace", "SendToNextWorkspace"} ->
               LET call == [e |-> "move_current_window", from |-> current_output,
                            to |-> current_output,
                            idx |-> sh.active_num[current_output] + 1,
                            follow |-> (a = "MoveToNextWorkspace"), dir |-> direction]
                   r == handle_action([a |-> NextWorkspaceFallback(a)], pattern, direction,
                                      sh, env)
               IN  IF env.mcw_ws = "Err"
                   THEN [r EXCEPT !.fx = out.fx \o <<call>> \o r.fx]
                   ELSE [out EXCEPT !.fx = @ \o <<call>>]
          [] a \in {"MoveToPreviousWorkspace", "SendToPreviousWorkspace"} ->
               LET call == [e |-> "move_current_window", from |-> current_output,
                            to |-> current_output,
                            idx |-> Max(sh.active_num[current_output] - 1, 0),
                            follow |-> (a = "MoveToPreviousWorkspace"), dir |-> direction]
                   r == handle_action([a |-> PreviousWorkspaceFallback(a)], pattern,
                                      direction, sh, env)
               IN  IF env.mcw_ws = "Err"
                   THEN [r EXCEPT !.fx = out.fx \o <<call>> \o r.fx]
                   ELSE [out EXCEPT !.fx = @ \o <<call>>]
          [] a \in {"MoveToNextOutput", "SendToNextOutput"} ->
               LET next_output == NextOutputOf(current_output)
                   call == [e |-> "move_current_window", from |-> current_output,
                            to |-> next_output, idx |-> -1,
                            follow |-> (a = "MoveToNextOutput"), dir |-> direction]
               IN  IF next_output = "" THEN out
                   ELSE [out EXCEPT !.fx = @ \o <<call>> \o MotionFx(env.mcw_out)]
          [] a \in {"MoveToPreviousOutput", "SendToPreviousOutput"} ->
               LET prev_output == PrevOutputOf(current_output)
                   call == [e |-> "move_current_window", from |-> current_output,
                            to |-> prev_output, idx |-> -1,
                            follow |-> (a = "MoveToPreviousOutput"), dir |-> direction]
               IN  IF prev_output = "" THEN out
                   ELSE [out EXCEPT !.fx = @ \o <<call>> \o MotionFx(env.mcw_out)]
          [] a = "Focus" ->
               LET call == [e |-> "next_focus", dir |-> action.dir,
                            swap |-> (sh.overview.t = "KeyboardSwap")]
                   nav == FocusNavigation(action.dir, sh.layout)
               IN  IF env.next_focus = "None"
                   THEN IF nav = "" THEN [out EXCEPT !.fx = @ \o <<call>>]
                        ELSE LET r == handle_action([a |-> nav], pattern, direction,
                                                    sh, env)
                             IN  [r EXCEPT !.fx = out.fx \o <<call>> \o r.fx]
                   ELSE IF env.next_focus = "Handled"
                        THEN [out EXCEPT !.fx = @ \o <<call>>]
                        ELSE [out EXCEPT !.fx = @ \o <<call>>
                                               \o << [e |-> "set_focus",
                                                      target |-> "target"] >>]
          [] a = "Move" ->
               IF env.fullscreen THEN out
               ELSE IF env.move = "MoveFurther"
                    THEN LET r == handle_action(
                                    [a |-> MoveFurtherAction(action.dir, sh.layout)],
                                    pattern, action.dir, sh, env)
                         IN  [r EXCEPT !.fx = out.fx \o r.fx]
                    ELSE IF env.move = "ShiftFocus"
                         THEN [out EXCEPT !.fx = @ \o << [e |-> "set_focus"] >>]
                         ELSE IF env.focused /\ env.tiled
                              THEN [out EXCEPT !.overview = set_overview_mode(sh.overview,
                                         [t |-> "KeyboardMove", mods |-> pattern.modifiers])]
                              ELSE out
          [] a = "SwapWindow" ->
               IF SwapWindowGrabs(env)
               THEN [out EXCEPT
                       !.fx = @ \o << [e |-> "set_grab", grab |-> "SwapWindowGrab"] >>,
                       !.overview = set_overview_mode(sh.overview,
                            [t |-> "KeyboardSwap", pattern |-> pattern,
                             desc |-> [ws |-> env.descWs]])]
               ELSE out
          [] a = "Resizing" ->
               [out EXCEPT !.resize = set_resize_mode(sh.resize,
                               [t |-> "Started", pattern |-> pattern, dir |-> action.dir])]
          [] a = "_ResizingInternal" ->
               IF action.state = "Pressed"
               THEN [out EXCEPT !.fx = @ \o << [e |-> "resize", dir |-> action.dir,
                                                edge |-> action.edge] >>]
               ELSE [out EXCEPT !.fx = @ \o << [e |-> "finish_resize", dir |-> action.dir,
                                                edge |-> action.edge] >>]
          [] OTHER -> out

\* the collaborators' answers an action can depend on
EnvsFor(action) ==
    CASE action.a = "Close" -> {[DefaultEnv EXCEPT !.focused = b] : b \in BOOLEAN}
      [] action.a = "Move" ->
           {[DefaultEnv EXCEPT !.fullscreen = TRUE], [DefaultEnv EXCEPT !.move = "ShiftFocus"]}
           \cup {[DefaultEnv EXCEPT !.focused = f, !.tiled = t] :
                    <<f, t>> \in {<<FALSE, FALSE>>, <<TRUE, FALSE>>, <<TRUE, TRUE>>}}
           \cup {[DefaultEnv EXCEPT !.move = "MoveFurther", !.mcw_ws = r[1], !.mcw_out = r[2]] :
                    r \in {<<"OkNone", "OkNone">>, <<"OkSome", "OkNone">>, <<"Err", "Err">>,
                           <<"Err", "OkNone">>, <<"Err", "OkSome">>}}
      [] action.a = "Focus" ->
           {[DefaultEnv EXCEPT !.next_focus = "Handled"],
            [DefaultEnv EXCEPT !.next_focus = "Some"]}
           \cup {[DefaultEnv EXCEPT !.next_focus = "None", !.act_ws = r[1], !.act_out = r[2]] :
                    r \in {<<"OkNone", "OkNone">>, <<"OkSome", "OkNone">>, <<"Err", "Err">>,
                           <<"Err", "OkNone">>, <<"Err", "OkSome">>}}
      [] action.a = "SwapWindow" ->
           {[DefaultEnv EXCEPT !.fullscreen = TRUE]}
           \* no focused window with a node, or one on the first workspace
           \cup {[DefaultEnv EXCEPT !.descWs = w] : w \in {0, 1}}
      [] action.a = "LastWorkspace" ->
           {[DefaultEnv EXCEPT !.act_ws = r] : r \in McwResults}
      [] action.a = "Workspace" ->
           {[DefaultEnv EXCEPT !.act_ws = r] : r \in {"Err", "OkNone"}}
      [] action.a \in {"NextWorkspace", "PreviousWorkspace"} ->
           {[DefaultEnv EXCEPT !.act_ws = r[1], !.act_out = r[2]] :
               r \in {<<"OkNone", "OkNone">>, <<"OkSome", "OkNone">>, <<"Err", "Err">>,
                      <<"Err", "OkNone">>, <<"Err", "OkSome">>}}
      [] action.a \in {"NextOutput", "PreviousOutput"} ->
           {[DefaultEnv EXCEPT !.act_out = r] : r \in McwResults}
      [] action.a \in {"MoveToLastWorkspace", "SendToLastWorkspace"} ->
           {[DefaultEnv EXCEPT !.mcw_ws = r] : r \in McwResults}
      [] action.a \in {"MoveToWorkspace", "SendToWorkspace"} ->
           {[DefaultEnv EXCEPT !.mcw_ws = r] : r \in {"Err", "OkNone"}}
      [] action.a \in {"MoveToNextWorkspace", "SendToNextWorkspace",
                       "MoveToPreviousWorkspace", "SendToPreviousWorkspace"} ->
           {[DefaultEnv EXCEPT !.mcw_ws = r[1], !.mcw_out = r[2]] :
               r \in {<<"OkNone", "OkNone">>, <<"OkSome", "OkNone">>, <<"Err", "Err">>,
                      <<"Err", "OkNone">>, <<"Err", "OkSome">>}}
      [] action.a \in {"MoveToNextOutput", "SendToNextOutput", "MoveToPreviousOutput",
                       "SendToPreviousOutput"} ->
           {[DefaultEnv EXCEPT !.mcw_out = r] : r \in McwResults}
      [] OTHER -> {DefaultEnv}

\* the answers SwapCommit can depend on
NoSwapEnv ==
    [focus |-> FALSE, hasDesc |-> FALSE, active |-> 1, spaces |-> WorkspaceHandles,
     some |-> FALSE, empty |-> FALSE]

\* a[1]: every workspace handle still exists (otherwise only the active
\* one); a[2]: the tree operation returns a focus target, which is asked
\* only when there is a tree operation
SwapEnvs ==
    {NoSwapEnv, [NoSwapEnv EXCEPT !.focus = TRUE]}
    \cup {[NoSwapEnv EXCEPT !.focus = TRUE, !.hasDesc = TRUE, !.active = w, !.some = a[2],
                             !.spaces = IF a[1] THEN WorkspaceHandles ELSE {w}] :
             w \in WorkspaceHandles,
             a \in {<<TRUE, FALSE>>, <<TRUE, TRUE>>, <<FALSE, FALSE>>}}
    \cup {[NoSwapEnv EXCEPT !.empty = TRUE, !.active = w, !.some = a[2],
                             !.spaces = IF a[1] THEN WorkspaceHandles ELSE {w}] :
             w \in WorkspaceHandles,
             a \in {<<TRUE, FALSE>>, <<TRUE, TRUE>>, <<FALSE, FALSE>>}}

TotalHeld(h) == LET RECURSIVE Sum(_)
                    Sum(S) == IF S = {} THEN 0
                              ELSE LET c == CHOOSE c \in S : TRUE IN h[c] + Sum(S \ {c})
                IN  Sum(KeyCodes)

\* nothing under the pointer
EmptyScene ==
    [fullscreen |-> FALSE, maximized |-> FALSE, or |-> FALSE, element |-> FALSE,
     overlay |-> "none", top |-> "none", bottom |-> "none", background |-> "none"]

Init ==
    /\ active_output = Outputs[1]
    /\ active_num = [o \in {Outputs[i] : i \in 1..Len(Outputs)} |-> 0]
    /\ workspace_layout = "Horizontal"
    /\ key_bindings = DefaultBindings
    /\ held = [c \in KeyCodes |-> 0]
    /\ overview = OverviewNone
    /\ resize = ResizeNone
    /\ suppressed = <<>>
    /\ timers = <<>>
    /\ pointer_location = [x |-> 0, y |-> 0]
    /\ icpt = {}
    /\ devices = [s \in SeatSet |-> <<>>]
    /\ scene = EmptyScene
    /\ last = [kind |-> "init", ovBefore |-> OverviewNone, rzBefore |-> ResizeNone,
               skBefore |-> <<>>]
    /\ fx = <<>>

\* InputEvent::Keyboard from a keyboard of the seat: xkb takes the key, the
\* filter runs, a forwarded key goes to the client, an intercepted action is
\* dispatched
KeyboardEvent ==
    \E code \in KeyCodes, state \in {"Pressed", "Released"} :
        /\ state = "Pressed" => held[code] < Cardinality({k \in Keyboards : code \in KeysOf(k)}) /\ TotalHeld(held) < MaxHeld
        /\ state = "Released" => held[code] > 0
        /\ \E held1 \in {[held EXCEPT ![code] = IF state = "Pressed" THEN @ + 1 ELSE @ - 1]} :
           \E modifiers \in {ModsOf(held1)} :
           \E vt_fail \in (IF state = "Pressed"
                              /\ modified_sym(code, modifiers) >= KEY_XF86Switch_VT_1
                              /\ modified_sym(code, modifiers) <= KEY_XF86Switch_VT_12
                           THEN BOOLEAN ELSE {FALSE}) :
           \* an inhibitor makes a difference on the press of a bound key or
           \* of a VT-switch key, needs_key_repetition on the press of an
           \* arrow key in resize mode
           \E inhibited \in (IF state = "Pressed"
                                /\ (\/ modified_sym(code, modifiers) >= KEY_XF86Switch_VT_1
                                    \/ GlobalShortcut(FALSE, modifiers, code, state) # 0)
                             THEN BOOLEAN ELSE {FALSE}) :
           \E rep \in (IF state = "Pressed" /\ resize.t = "Started"
                          /\ resize_edge(modified_sym(code, modifiers)) # "NONE"
                       THEN BOOLEAN ELSE {FALSE}) :
           \E senv \in (IF SwapLeaves(LeaveMoveOverview(overview, modifiers), modifiers,
                                      code, state)
                        THEN SwapEnvs ELSE {NoSwapEnv}) :
           \E f \in {KeyFilter([overview |-> overview, resize |-> resize,
                                suppressed |-> suppressed, timers |-> timers],
                               code, state, modifiers,
                               [inhibited |-> inhibited, rep |-> rep, focus |-> senv.focus,
                                hasDesc |-> senv.hasDesc, active |-> senv.active,
                                spaces |-> senv.spaces, some |-> senv.some,
                                empty |-> senv.empty, vt_fail |-> vt_fail])} :
           \E aenv \in EnvsFor(f.result.action) :
           \E h \in {IF f.result.kind = "Intercept" /\ f.result.action # NoAction
                     THEN handle_action(f.result.action, f.result.pattern, "None",
                                        [overview |-> f.overview, resize |-> f.resize,
                                         active_output |-> active_output,
                                         active_num |-> active_num,
                                         layout |-> workspace_layout], aenv)
                     ELSE [overview |-> f.overview, resize |-> f.resize,
                           active_output |-> active_output, active_num |-> active_num,
                           layout |-> workspace_layout, fx |-> <<>>]} :
               /\ held' = held1
               /\ overview' = h.overview
               /\ resize' = h.resize
               /\ active_output' = h.active_output
               /\ active_num' = h.active_num
               /\ suppressed' = f.suppressed
               /\ timers' = f.timers
               /\ icpt' = IF state = "Released" THEN icpt \ {code}
                          ELSE IF f.result.kind = "Intercept"
                               THEN icpt \cup {code} ELSE icpt
               /\ fx' = f.fx
                        \o (IF f.result.kind = "Forward"
                            THEN << [e |-> "key_to_client", code |-> code,
                                     state |-> state] >>
                            ELSE <<>>)
                        \o h.fx
               /\ last' = [kind |-> "key", code |-> code, state |-> state,
                           modifiers |-> modifiers, inhibited |-> inhibited,
                           rep |-> rep, result |-> f.result.kind,
                           action |-> f.result.action,
                           pattern |-> f.result.pattern,
                           wasIcpt |-> (code \in icpt),
                           ovBefore |-> overview, rzBefore |-> resize,
                           skBefore |-> suppressed,
                           tmBefore |-> {t \in DOMAIN timers : timers[t].code = code},
                           env |-> aenv, senv |-> senv, vt_fail |-> vt_fail]
               /\ UNCHANGED <<workspace_layout, key_bindings, pointer_location, devices, scene>>

\* a variant of RepeatedAction that dispatches the key state Released
RepeatedActionReleased(timer) == [timer.action EXCEPT !.state = "Released"]

\* action_clone.clone() in the timer closure: the action the closure moved
\* in when the timer was created
RepeatedAction(timer) == timer.action

\* a repeat timer fires: the closure given to insert_source dispatches the
\* action captured at press time and re-arms itself
TimerFire ==
    \E t \in DOMAIN timers :
        \E h \in {handle_action(RepeatedAction(timers[t]), timers[t].pattern, "None",
                                [overview |-> overview, resize |-> resize,
                                 active_output |-> active_output, active_num |-> active_num,
                                 layout |-> workspace_layout], DefaultEnv)} :
            /\ overview' = h.overview
            /\ resize' = h.resize
            /\ active_output' = h.active_output
            /\ active_num' = h.active_num
            /\ timers' = [timers EXCEPT ![t].delay = RepeatRateMs, ![t].fired = TRUE]
            /\ fx' = h.fx
            /\ last' = [kind |-> "timer", token |-> t, code |-> timers[t].code,
                        after |-> timers[t].delay, first |-> ~timers[t].fired,
                        action |-> timers[t].action,
                        ovBefore |-> overview, rzBefore |-> resize,
                        skBefore |-> suppressed]
            /\ UNCHANGED <<workspace_layout, key_bindings, held, suppressed, icpt, pointer_location,
                           devices, scene>>

NextKeyboard == KeyboardEvent \/ TimerFire

SpecKeyboard == Init /\ [][NextKeyboard]_vars

(***************************************************************************)
(* The keyboard with a binding table without modifiers                     *)
(***************************************************************************)
InitBindings ==
    /\ active_output = Outputs[1]
    /\ active_num = [o \in {Outputs[i] : i \in 1..Len(Outputs)} |-> 0]
    /\ workspace_layout = "Horizontal"
    /\ key_bindings = UnmodifiedBindings
    /\ held = [c \in KeyCodes |-> 0]
    /\ overview = OverviewNone
    /\ resize = ResizeNone
    /\ suppressed = <<>>
    /\ timers = <<>>
    /\ pointer_location = [x |-> 0, y |-> 0]
    /\ icpt = {}
    /\ devices = [s \in SeatSet |-> <<>>]
    /\ scene = EmptyScene
    /\ last = [kind |-> "init", ovBefore |-> OverviewNone, rzBefore |-> ResizeNone,
               skBefore |-> <<>>]
    /\ fx = <<>>

NextBindings == KeyboardEvent \/ TimerFire

SpecBindings == InitBindings /\ [][NextBindings]_vars

(***************************************************************************)
(* State::handle_action called with any action                             *)
(***************************************************************************)
Directions == {"Left", "Right", "Up", "Down"}

\* FocusDirection
FocusDirections == {"Left", "Right", "Up", "Down", "In", "Out"}

\* the actions of the configuration language the model dispatches
DispatchActions ==
    {[a |-> x] : x \in {"Terminate", "Close", "NextWorkspace", "PreviousWorkspace",
                        "LastWorkspace", "MoveToNextWorkspace", "SendToNextWorkspace",
                        "MoveToPreviousWorkspace", "SendToPreviousWorkspace",
                        "MoveToLastWorkspace", "SendToLastWorkspace", "NextOutput",
                        "PreviousOutput", "MoveToNextOutput", "SendToNextOutput",
                        "MoveToPreviousOutput", "SendToPreviousOutput"}}
    \cup {[a |-> x, n |-> n] : x \in {"Workspace", "MoveToWorkspace", "SendToWorkspace"},
                               n \in 0..9}
    \cup {[a |-> "Move", dir |-> d] : d \in Directions}
    \cup {[a |-> "Focus", dir |-> d] : d \in FocusDirections}

\* the seat as add_seat leaves it, under either workspace layout
InitDispatch ==
    /\ active_output = Outputs[1]
    /\ active_num = [o \in {Outputs[i] : i \in 1..Len(Outputs)} |-> 0]
    /\ workspace_layout \in {"Horizontal", "Vertical"}
    /\ key_bindings = DefaultBindings
    /\ held = [c \in KeyCodes |-> 0]
    /\ overview = OverviewNone
    /\ resize = ResizeNone
    /\ suppressed = <<>>
    /\ timers = <<>>
    /\ pointer_location = [x |-> 0, y |-> 0]
    /\ icpt = {}
    /\ devices = [s \in SeatSet |-> <<>>]
    /\ scene = EmptyScene
    /\ last = [kind |-> "init", ovBefore |-> OverviewNone, rzBefore |-> ResizeNone,
               skBefore |-> <<>>]
    /\ fx = <<>>

\* State::handle_action, called with an action and the pattern that
\* triggered it
Dispatch ==
    \E action \in DispatchActions :
    \E pattern \in {Pattern({"logo"}, 120)} :
    \E env \in EnvsFor(action) :
    \E h \in {handle_action(action, pattern, "None",
                            [overview |-> overview, resize |-> resize,
                             active_output |-> active_output, active_num |-> active_num,
                             layout |-> workspace_layout], env)} :
        /\ overview' = h.overview
        /\ resize' = h.resize
        /\ active_output' = h.active_output
        /\ active_num' = h.active_num
        /\ fx' = h.fx
        /\ last' = [kind |-> "dispatch", action |-> action, pattern |-> pattern,
                    env |-> env, outBefore |-> active_output, numBefore |-> active_num,
                    ovBefore |-> overview, rzBefore |-> resize, skBefore |-> suppressed]
        /\ UNCHANGED <<workspace_layout, key_bindings, held, suppressed, timers, icpt,
                       pointer_location, devices, scene>>

NextDispatch == Dispatch

SpecDispatch == InitDispatch /\ [][NextDispatch]_vars

(***************************************************************************)
(* Device hotplug: InputEvent::DeviceAdded and InputEvent::DeviceRemoved   *)
(***************************************************************************)
\* the backend announces a device; the seat is common.last_active_seat()
\* at that moment, and no other seat is looked at
DeviceAdded ==
    \E device \in InputDevices :
    \E seat \in SeatSet :
    \E r \in {add_device(devices[seat], device)} :
        /\ devices' = [devices EXCEPT ![seat] = r.map]
        /\ last' = [kind |-> "added", device |-> device, seat |-> seat,
                    caps |-> r.caps, devBefore |-> devices,
                    ovBefore |-> overview, rzBefore |-> resize, skBefore |-> suppressed]
        /\ fx' = <<>>
        /\ UNCHANGED <<active_output, active_num, workspace_layout, key_bindings, held, overview,
                       resize, suppressed, timers, pointer_location, icpt, scene>>

\* the backend withdraws a device; the last-active seat is not read
DeviceRemoved ==
    \E device \in InputDevices :
    \E r \in {RemoveFromSeats(devices, device, 1)} :
        /\ devices' = r.devices
        /\ last' = [kind |-> "removed", device |-> device, caps |-> r.caps,
                    devBefore |-> devices,
                    ovBefore |-> overview, rzBefore |-> resize, skBefore |-> suppressed]
        /\ fx' = <<>>
        /\ UNCHANGED <<active_output, active_num, workspace_layout, key_bindings, held, overview,
                       resize, suppressed, timers, pointer_location, icpt, scene>>

NextDevices == DeviceAdded \/ DeviceRemoved

SpecDevices == Init /\ [][NextDevices]_vars

(***************************************************************************)
(* Pointer motion                                                          *)
(***************************************************************************)
OutputSet == {Outputs[i] : i \in 1..Len(Outputs)}

\* Output::geometry: A at the origin, B to its right and one unit lower, so
\* that some positions next to an output lie in no output
OutputGeometry(o) ==
    IF o = "A" THEN [x |-> 0, y |-> 0, w |-> OutputSize, h |-> OutputSize]
    ELSE [x |-> OutputSize, y |-> 1, w |-> OutputSize, h |-> OutputSize]

\* Rectangle::contains: the upper bounds are exclusive
Contains(geo, p) ==
    /\ p.x >= geo.x /\ p.x < geo.x + geo.w
    /\ p.y >= geo.y /\ p.y < geo.y + geo.h

\* outputs().find(contains(position)).unwrap_or(current_output)
RECURSIVE FindOutput(_, _, _)
FindOutput(position, current_output, i) ==
    IF i > Len(Outputs) THEN current_output
    ELSE IF Contains(OutputGeometry(Outputs[i]), position) THEN Outputs[i]
         ELSE FindOutput(position, current_output, i + 1)

MinOf(a, b) == IF a < b THEN a ELSE b

\* a variant of ClampTo that bounds the x coordinate only
ClampToXOnly(position, geo) ==
    [x |-> MinOf(Max(geo.x, position.x), geo.x + geo.w), y |-> position.y]

\* loc.max(position).min(loc + size), per axis
ClampTo(position, geo) ==
    [x |-> MinOf(Max(geo.x, position.x), geo.x + geo.w),
     y |-> MinOf(Max(geo.y, position.y), geo.y + geo.h)]

\* the screencopy sessions of the model: of the active workspace of an
\* output, of the surface of its fullscreen window, of the output itself
WorkspaceSessions(o) == IF o = "A" THEN <<"ws_a">> ELSE <<>>
FullscreenSessions(o) == IF o = "A" THEN <<"win_a">> ELSE <<"win_b1", "win_b2">>
OutputSessions(o) == IF o = "A" THEN <<"out_a1", "out_a2">> ELSE <<"out_b">>

\* sessions_for_output; fullscreen: the active workspace of the output has a
\* fullscreen window
sessions_for_output(o, fullscreen) ==
    WorkspaceSessions(o)
    \o (IF fullscreen THEN FullscreenSessions(o) ELSE <<>>)
    \o OutputSessions(o)

SessionCalls(e, sessions) == [i \in 1..Len(sessions) |-> [e |-> e, session |-> sessions[i]]]

\* a variant of OutputChange that changes the active output first
OutputChangeActiveFirst(current_output, output, fs) ==
    IF output # current_output
    THEN << [e |-> "set_active_output", output |-> output] >>
         \o SessionCalls("cursor_leave", sessions_for_output(current_output, fs[current_output]))
         \o SessionCalls("cursor_enter", sessions_for_output(output, fs[output]))
    ELSE <<>>

\* what the handler does when the pointer changes output
OutputChange(current_output, output, fs) ==
    IF output # current_output
    THEN SessionCalls("cursor_leave", sessions_for_output(current_output, fs[current_output]))
         \o SessionCalls("cursor_enter", sessions_for_output(output, fs[output]))
         \o << [e |-> "set_active_output", output |-> output] >>
    ELSE <<>>

\* State::surface_under.  sc: fullscreen, maximized (the workspace has such a
\* window on the output), or (an override-redirect window has the position in
\* its input region), element (element_under is Some), and per layer
\* "none" (layer_under is None), "bbox" (a layer surface is under the
\* position, its surface_under is None), "surface" (its surface_under is
\* Some) or "focusable" (Some, and the layer can receive keyboard focus)
HasSurface(v) == v \in {"surface", "focusable"}

surface_under(sc) ==
    IF sc.fullscreen
    THEN IF HasSurface(sc.overlay) THEN "overlay"
         ELSE IF sc.or THEN "override_redirect"
         ELSE "fullscreen"
    ELSE LET upper == IF sc.overlay # "none" THEN "overlay"
                      ELSE IF sc.top # "none" THEN "top" ELSE "none"
             lower == IF sc.bottom # "none" THEN "bottom"
                      ELSE IF sc.background # "none" THEN "background" ELSE "none"
         IN  IF upper # "none" /\ HasSurface(sc[upper]) THEN upper
             ELSE IF sc.or THEN "override_redirect"
             ELSE IF sc.maximized THEN "maximized"
             ELSE IF sc.element THEN "element"
             ELSE IF lower # "none" /\ HasSurface(sc[lower]) THEN lower
             ELSE "None"

\* what a motion can find: what is under the pointer, and whether the seat
\* has a cursor geometry to report to the sessions
PointerScenes ==
    {[scene |-> EmptyScene, cursor |-> FALSE],
     [scene |-> [EmptyScene EXCEPT !.element = TRUE], cursor |-> TRUE],
     [scene |-> [EmptyScene EXCEPT !.top = "surface", !.element = TRUE], cursor |-> TRUE]}

\* a variant of MotionEvents that sends the motion first
MotionEventsMotionFirst(under, delta, position) ==
    << [e |-> "motion", focus |-> under, location |-> position],
       [e |-> "relative_motion", focus |-> under, delta |-> delta] >>

\* what the handler sends to the seat pointer
MotionEvents(under, delta, position) ==
    << [e |-> "relative_motion", focus |-> under, delta |-> delta],
       [e |-> "motion", focus |-> under, location |-> position] >>

\* InputEvent::PointerMotion from a device of the seat.  fs: which outputs
\* have a fullscreen window on their active workspace; cursor: cursor_geometry
\* is Some
PointerMotion ==
    \E dx \in -MaxDelta..MaxDelta, dy \in -MaxDelta..MaxDelta,
       fs \in [OutputSet -> BOOLEAN], ps \in PointerScenes :
    \E unclamped \in {[x |-> pointer_location.x + dx, y |-> pointer_location.y + dy]} :
    \E output \in {FindOutput(unclamped, active_output, 1)} :
    \E position \in {ClampTo(unclamped, OutputGeometry(output))} :
    \E under \in {surface_under([ps.scene EXCEPT !.fullscreen = fs[output]])} :
        /\ active_output' = output
        /\ pointer_location' = position
        /\ fx' = OutputChange(active_output, output, fs)
                 \o (IF ps.cursor
                     THEN SessionCalls("cursor_info", sessions_for_output(output, fs[output]))
                     ELSE <<>>)
                 \o MotionEvents(under, [x |-> dx, y |-> dy], position)
        /\ last' = [kind |-> "motion", delta |-> [x |-> dx, y |-> dy],
                    from |-> pointer_location, unclamped |-> unclamped,
                    outBefore |-> active_output, fs |-> fs, scene |-> ps.scene,
                    cursor |-> ps.cursor, ovBefore |-> overview, rzBefore |-> resize,
                    skBefore |-> suppressed]
        /\ UNCHANGED <<active_num, workspace_layout, key_bindings, held, overview, resize,
                       suppressed, timers, icpt, devices, scene>>

NextPointer == PointerMotion

SpecPointer == Init /\ [][NextPointer]_vars

(***************************************************************************)
(* Absolute pointer motion                                                 *)
(***************************************************************************)
\* the hit tests of a layer that surface_under tells apart
SurfaceHits == {"none", "bbox", "surface"}

\* everything that can be under a position
SurfaceScenes ==
    {[fullscreen |-> f, maximized |-> m, or |-> o, element |-> e,
      overlay |-> l[1], top |-> l[2], bottom |-> l[3], background |-> l[4]] :
        f \in BOOLEAN, m \in BOOLEAN, o \in BOOLEAN, e \in BOOLEAN,
        l \in [1..4 -> SurfaceHits]}

\* a variant of position_transformed that takes the raw coordinates as they are
position_untransformed(raw, size) == raw

\* AbsolutePositionEvent::position_transformed: the device reports raw in
\* 0..AbsRange per axis, which is scaled to the size of the output
position_transformed(raw, size) ==
    [x |-> (raw.x * size.w) \div AbsRange, y |-> (raw.y * size.h) \div AbsRange]

\* the seat on either output, with whatever is under the pointer there
InitAbsolute ==
    /\ active_output \in OutputSet
    /\ active_num = [o \in {Outputs[i] : i \in 1..Len(Outputs)} |-> 0]
    /\ workspace_layout = "Horizontal"
    /\ key_bindings = DefaultBindings
    /\ held = [c \in KeyCodes |-> 0]
    /\ overview = OverviewNone
    /\ resize = ResizeNone
    /\ suppressed = <<>>
    /\ timers = <<>>
    /\ pointer_location = [x |-> 0, y |-> 0]
    /\ icpt = {}
    /\ devices = [s \in SeatSet |-> <<>>]
    /\ scene \in SurfaceScenes
    /\ last = [kind |-> "init", ovBefore |-> OverviewNone, rzBefore |-> ResizeNone,
               skBefore |-> <<>>]
    /\ fx = <<>>

\* InputEvent::PointerMotionAbsolute.  has_seat: seat_with_device finds a
\* seat, and nothing else of the event is read when it finds none; cursor:
\* cursor_geometry is Some
PointerMotionAbsolute ==
    \E has_seat \in BOOLEAN :
    \E rx \in (IF has_seat THEN 0..AbsRange ELSE {0}),
       ry \in (IF has_seat THEN 0..AbsRange ELSE {0}),
       cursor \in (IF has_seat THEN BOOLEAN ELSE {FALSE}) :
    \E geometry \in {OutputGeometry(active_output)} :
    \E tp \in {position_transformed([x |-> rx, y |-> ry], geometry)} :
    \E position \in {[x |-> geometry.x + tp.x, y |-> geometry.y + tp.y]} :
        /\ pointer_location' = IF has_seat THEN position ELSE pointer_location
        /\ fx' = IF ~has_seat THEN <<>>
                 ELSE (IF cursor
                       THEN SessionCalls("cursor_info",
                                         sessions_for_output(active_output,
                                                             scene.fullscreen))
                       ELSE <<>>)
                      \o << [e |-> "motion", focus |-> surface_under(scene),
                             location |-> position] >>
        /\ last' = [kind |-> "absolute", raw |-> [x |-> rx, y |-> ry],
                    has_seat |-> has_seat, outBefore |-> active_output,
                    cursor |-> cursor,
                    ovBefore |-> overview, rzBefore |-> resize, skBefore |-> suppressed]
        /\ UNCHANGED <<active_output, active_num, workspace_layout, key_bindings, held, overview,
                       resize, suppressed, timers, icpt, devices, scene>>

NextAbsolute == PointerMotionAbsolute

SpecAbsolute == InitAbsolute /\ [][NextAbsolute]_vars

(***************************************************************************)
(* Events of devices that no seat has                                      *)
(***************************************************************************)
\* the events whose handler starts by looking up the seat of the device;
\* Gesture: the eight swipe, pinch and hold events, whose handlers differ in
\* the pointer call they make for the seat
InputEvents ==
    {"Keyboard", "PointerMotion", "PointerMotionAbsolute", "PointerButton",
     "PointerAxis", "Gesture"}

\* a variant of Dropped that leaves the modes of the shell
DroppedEndsModes(event) ==
    /\ overview' = set_overview_mode(overview, OverviewNone)
    /\ resize' = set_resize_mode(resize, ResizeNone)
    /\ fx' = <<>>
    /\ last' = [kind |-> "dropped", event |-> event,
                ovBefore |-> overview, rzBefore |-> resize, skBefore |-> suppressed,
                outBefore |-> active_output, numBefore |-> active_num,
                heldBefore |-> held, timersBefore |-> timers,
                locBefore |-> pointer_location, icptBefore |-> icpt]
    /\ UNCHANGED <<active_output, active_num, workspace_layout, key_bindings, held, suppressed,
                   timers, pointer_location, icpt, devices, scene>>

\* the handler of event when seat_with_device finds no seat: the body is
\* inside `if let Some(seat)`, which has no else
Dropped(event) ==
    /\ fx' = <<>>
    /\ last' = [kind |-> "dropped", event |-> event,
                ovBefore |-> overview, rzBefore |-> resize, skBefore |-> suppressed,
                outBefore |-> active_output, numBefore |-> active_num,
                heldBefore |-> held, timersBefore |-> timers,
                locBefore |-> pointer_location, icptBefore |-> icpt]
    /\ UNCHANGED <<active_output, active_num, workspace_layout, key_bindings, held, overview,
                   resize, suppressed, timers, pointer_location, icpt, devices, scene>>

\* an event of a device that is bound to no seat
StrayEvent == \E event \in InputEvents : Dropped(event)

\* the keyboard of a seat in use while devices that no seat has send events
NextStray == KeyboardEvent \/ TimerFire \/ StrayEvent

SpecStray == Init /\ [][NextStray]_vars

(***************************************************************************)
(* Pointer buttons                                                        *)
(***************************************************************************)
\* button codes of the events
Buttons == {272, 273}

LayerHits == {"none", "bbox", "surface", "focusable"}

\* what can be under the pointer.  bottomAtPos, backgroundAtPos: the same
\* hit test for the layer found at the global position, which is the one
\* found at the position relative to the output when the output is at the
\* origin, and none here when it is not
ButtonScenes ==
    {[fullscreen |-> f, maximized |-> m, or |-> o, element |-> e,
      overlay |-> l[1], top |-> l[2], bottom |-> l[3], background |-> l[4],
      bottomAtPos |-> IF g THEN l[3] ELSE "none",
      backgroundAtPos |-> IF g THEN l[4] ELSE "none"] :
        f \in BOOLEAN, m \in BOOLEAN, o \in BOOLEAN, e \in BOOLEAN,
        l \in [1..4 -> LayerHits], g \in BOOLEAN}

\* a layer surface is taken if it can receive keyboard focus and has a
\* surface at the position
TakesFocus(v) == v = "focusable"

\* the keyboard focus hit test of a button press ("None": no target)
button_focus(sc) ==
    IF sc.fullscreen
    THEN IF sc.overlay # "none"
         THEN (IF TakesFocus(sc.overlay) THEN "overlay" ELSE "None")
         ELSE "fullscreen"
    ELSE LET upper == IF sc.overlay # "none" THEN "overlay"
                      ELSE IF sc.top # "none" THEN "top" ELSE "none"
             lower == IF sc.bottomAtPos # "none" THEN "bottom"
                      ELSE IF sc.backgroundAtPos # "none" THEN "background" ELSE "none"
             hit == IF lower = "bottom" THEN sc.bottomAtPos
                    ELSE IF lower = "background" THEN sc.backgroundAtPos ELSE "none"
         IN  IF upper # "none"
             THEN (IF TakesFocus(sc[upper]) THEN upper ELSE "None")
             ELSE IF sc.maximized THEN "maximized"
             ELSE IF sc.element THEN "element"
             ELSE IF TakesFocus(hit) THEN lower
             ELSE "None"

\* the seat with whatever is under the pointer, with or without an overview
\* mode that a pointer button has started
InitButton ==
    /\ active_output = Outputs[1]
    /\ active_num = [o \in {Outputs[i] : i \in 1..Len(Outputs)} |-> 0]
    /\ workspace_layout = "Horizontal"
    /\ key_bindings = DefaultBindings
    /\ held = [c \in KeyCodes |-> 0]
    /\ overview \in {OverviewNone, [t |-> "Pointer", button |-> 272]}
    /\ resize = ResizeNone
    /\ suppressed = <<>>
    /\ timers = <<>>
    /\ pointer_location = [x |-> 0, y |-> 0]
    /\ icpt = {}
    /\ devices = [s \in SeatSet |-> <<>>]
    /\ scene \in ButtonScenes
    /\ last = [kind |-> "init", ovBefore |-> OverviewNone, rzBefore |-> ResizeNone,
               skBefore |-> <<>>]
    /\ fx = <<>>

\* a variant of EndsPointerOverview that takes the release of any button
EndsPointerOverviewAnyButton(ov, button, state) ==
    state = "Released" /\ ov.t = "Pointer"

\* the button event ends the overview mode: the release of the button that
\* started it
EndsPointerOverview(ov, button, state) ==
    state = "Released" /\ ov.t = "Pointer" /\ ov.button = button

\* InputEvent::PointerButton.  has_seat: seat_with_device finds a seat;
\* grabbed: the pointer or the keyboard of the seat is grabbed; convertible:
\* the target found converts into a keyboard focus target
PointerButton ==
    \E button \in Buttons, state \in {"Pressed", "Released"}, has_seat \in BOOLEAN :
    \E grabbed \in (IF has_seat /\ state = "Pressed" THEN BOOLEAN ELSE {FALSE}) :
    \E convertible \in (IF has_seat /\ state = "Pressed" /\ ~grabbed
                         /\ button_focus(scene) # "None"
                       THEN BOOLEAN ELSE {TRUE}) :
        /\ overview' = IF has_seat /\ EndsPointerOverview(overview, button, state)
                       THEN set_overview_mode(overview, OverviewNone)
                       ELSE overview
        /\ fx' = IF ~has_seat THEN <<>>
                 ELSE (IF state = "Pressed" /\ ~grabbed
                       THEN << [e |-> "set_focus",
                                target |-> IF convertible THEN button_focus(scene)
                                           ELSE "None"] >>
                       ELSE <<>>)
                      \o << [e |-> "button", button |-> button, state |-> state] >>
        /\ last' = [kind |-> "button", button |-> button, state |-> state,
                    has_seat |-> has_seat, grabbed |-> grabbed,
                    convertible |-> convertible,
                    ovBefore |-> overview, rzBefore |-> resize, skBefore |-> suppressed]
        /\ UNCHANGED <<active_output, active_num, workspace_layout, key_bindings, held, resize,
                       suppressed, timers, pointer_location, icpt, devices, scene>>

NextButton == PointerButton

SpecButton == InitButton /\ [][NextButton]_vars

(***************************************************************************)
(* Claims about the keyboard filter                                        *)
(***************************************************************************)
KeyEvent(state) == last.kind = "key" /\ last.state = state

\* the calls of kind e in fx
FxOf(e) == SelectSeq(fx, LAMBDA x : x.e = e)

\* the key event got as far as the global-shortcut rule: it was no resize
\* arrow key, no release of a key suppressed with a timer, no VT switch
ReachesShortcutRule ==
    /\ last.kind = "key"
    /\ LET rz == ResizeMaintenance(last.rzBefore, last.modifiers, last.code, last.state)
           sym == modified_sym(last.code, last.modifiers)
       IN  /\ ~(rz.t = "Started" /\ resize_edge(sym) # "NONE")
           /\ ~(last.state = "Pressed" /\ sym >= KEY_XF86Switch_VT_1
                /\ sym <= KEY_XF86Switch_VT_12)
    /\ ~(last.state = "Released"
         /\ \E i \in DOMAIN last.skBefore :
               last.skBefore[i].code = last.code /\ last.skBefore[i].token # 0)

\* the bindings whose modifiers equal the mask of the event and whose key is
\* among its raw keysyms
MatchingBindings ==
    {i \in DOMAIN key_bindings :
        /\ key_bindings[i].binding.modifiers = last.modifiers
        /\ key_bindings[i].binding.key \in raw_syms(last.code)}

FirstMatchingBinding == CHOOSE i \in MatchingBindings : \A j \in MatchingBindings : i <= j

\* C1: for every key-down for which the filter returned Intercept, the next
\* key-up of the same raw keycode on the seat gets Intercept, never Forward.
C1_ReleaseOfInterceptedKeyIsIntercepted ==
    (KeyEvent("Released") /\ last.wasIcpt) => last.result = "Intercept"

\* C2: the key-up of a keycode whose press registered a repeat timer removes
\* the suppression entries of the keycode and cancels the timer in the same
\* step, whatever the resize mode is by then; a timer is registered, and so
\* can fire, only while its key-down has had no key-up.
C2_KeyUpCancelsRepeatTimer ==
    /\ KeyEvent("Released") =>
          /\ \A t \in last.tmBefore :
                /\ t \notin DOMAIN timers
                /\ \E i \in DOMAIN fx : fx[i] = [e |-> "loop_remove", token |-> t]
          /\ \A i \in DOMAIN suppressed : suppressed[i].code # last.code
          /\ \A t \in DOMAIN timers : timers[t].code # last.code
    /\ \A t \in DOMAIN timers : timers[t].code \in icpt /\ held[timers[t].code] > 0
    /\ last.kind = "timer" => last.code \in icpt /\ last.token \in DOMAIN timers

\* a key-up reaches the released-key rule with resize mode over, and cancels
\* the timer of its press
C2_Witness ==
    /\ KeyEvent("Released") /\ last.tmBefore # {}
    /\ last.result = "Intercept" /\ last.action = NoAction
    /\ resize.t = "None"

C4_InhibitedShortcutIsForwarded ==
    (KeyEvent("Pressed") /\ last.inhibited /\ ReachesShortcutRule
     /\ MatchingBindings # {}) =>
        /\ last.result = "Forward"
        /\ fx = << [e |-> "key_to_client", code |-> last.code, state |-> "Pressed"] >>
        /\ suppressed = last.skBefore
        /\ last.action = NoAction

\* Super+x, bound to SwapWindow, is pressed under an inhibitor and forwarded
C4_Witness ==
    /\ KeyEvent("Pressed") /\ last.inhibited /\ last.code = 53
    /\ last.modifiers = {"logo"} /\ last.result = "Forward"

\* C5 as stated: any key event, press or release, that reaches the
\* global-shortcut rule uninhibited is intercepted with the first matching
\* binding and one suppression is added; with no match it is forwarded.
C5_AnyKeyEventTriggersShortcut ==
    (ReachesShortcutRule /\ ~last.inhibited) =>
        IF MatchingBindings # {}
        THEN /\ last.result = "Intercept"
             /\ last.action = key_bindings[FirstMatchingBinding].action
             /\ last.pattern = key_bindings[FirstMatchingBinding].binding
             /\ Len(suppressed) = 1 + Len(SelectSeq(last.skBefore,
                                       LAMBDA e : last.state = "Pressed" \/ e.code # last.code))
        ELSE /\ last.result = "Forward"
             /\ Len(suppressed) <= Len(last.skBefore)

\* C5: a key press that reaches the global-shortcut rule uninhibited is
\* intercepted with the action and pattern of the first binding, in table
\* order, whose modifiers equal the modifier mask and whose key is among the
\* raw keysyms, and one suppression (without timer) is appended; a press
\* with no match, and every release that reaches the rule, is forwarded and
\* adds nothing.
C5_PressTriggersFirstMatchingShortcut ==
    (ReachesShortcutRule /\ ~last.inhibited) =>
        IF last.state = "Pressed" /\ MatchingBindings # {}
        THEN /\ last.result = "Intercept"
             /\ last.action = key_bindings[FirstMatchingBinding].action
             /\ last.pattern = key_bindings[FirstMatchingBinding].binding
             /\ suppressed = Append(last.skBefore, [code |-> last.code, token |-> 0])
        ELSE /\ last.result = "Forward"
             /\ last.action = NoAction
             /\ last.state = "Pressed" => suppressed = last.skBefore
             /\ last.state = "Released" =>
                   suppressed = SelectSeq(last.skBefore, LAMBDA e : e.code # last.code)

\* Super+x matches two bindings and triggers the first, SwapWindow
C5_Witness ==
    /\ KeyEvent("Pressed") /\ ~last.inhibited /\ ReachesShortcutRule
    /\ Cardinality(MatchingBindings) = 2
    /\ last.action = [a |-> "SwapWindow"]

\* C9: overview mode becomes KeyboardMove(M) only in a key event that
\* dispatches a Move action with a focused tiled window, M being the
\* modifiers of the triggering pattern; and a KeyboardMove(M) mode is left
\* exactly by the key events whose modifier mask lacks a modifier of M.
C9_KeyboardMoveEntryAndExit ==
    /\ (overview.t = "KeyboardMove" /\ last.ovBefore # overview) =>
          /\ last.kind = "key" /\ last.action.a = "Move"
          /\ last.env.focused /\ last.env.tiled
          /\ overview.mods = last.pattern.modifiers
    /\ last.ovBefore.t = "KeyboardMove" =>
          ((overview # last.ovBefore)
             <=> (last.kind = "key" /\ last.ovBefore.mods \ last.modifiers # {}))

\* KeyboardMove({logo, shift}) is left by a key event with one of the two
\* modifiers still held
C9_Witness ==
    /\ last.kind = "key" /\ last.ovBefore.t = "KeyboardMove" /\ overview.t = "None"
    /\ last.ovBefore.mods \cap last.modifiers # {}

\* C10: overview mode becomes KeyboardSwap(P, D) only in a key event that
\* dispatches SwapWindow, P being the triggering pattern; and a
\* KeyboardSwap(P, D) mode is left exactly by the key events whose modifier
\* mask lacks a modifier of P, or that release a key whose raw keysyms
\* contain P.key.
C10_KeyboardSwapEntryAndExit ==
    /\ (overview.t = "KeyboardSwap" /\ last.ovBefore # overview) =>
          /\ last.kind = "key" /\ last.action.a = "SwapWindow"
          /\ overview.pattern = last.pattern
          /\ overview.desc.ws = last.env.descWs
    /\ last.ovBefore.t = "KeyboardSwap" =>
          ((overview # last.ovBefore)
             <=> (last.kind = "key"
                  /\ (last.ovBefore.pattern.modifiers \ last.modifiers # {}
                      \/ (last.state = "Released"
                          /\ last.ovBefore.pattern.key \in raw_syms(last.code)))))

\* KeyboardSwap is left by the release of the key of its pattern, the
\* modifiers of the pattern still held
C10_Witness ==
    /\ KeyEvent("Released") /\ last.ovBefore.t = "KeyboardSwap" /\ overview.t = "None"
    /\ last.ovBefore.pattern.modifiers \subseteq last.modifiers
    /\ last.ovBefore.pattern.key \in raw_syms(last.code)

\* swap mode ends in this key event, the keyboard has a focus and the focus
\* has a node descriptor on the active workspace
SwapEndsWithFocus ==
    /\ last.kind = "key" /\ last.ovBefore.t = "KeyboardSwap"
    /\ \/ last.ovBefore.pattern.modifiers \ last.modifiers # {}
       \/ (last.state = "Released" /\ last.ovBefore.pattern.key \in raw_syms(last.code))
    /\ last.senv.focus /\ last.senv.hasDesc

\* C11 as stated: when swap mode ends with a focus whose descriptor resolves,
\* overview mode is None afterwards and swap_trees is called exactly once,
\* across workspaces iff the stored workspace differs from the active one;
\* the focus is set from an idle callback only.
C11_SwapTreesExactlyOnce ==
    SwapEndsWithFocus =>
        /\ overview = OverviewNone
        /\ Len(FxOf("swap_trees")) = 1
        /\ FxOf("swap_trees")[1] =
              (IF last.ovBefore.desc.ws # last.senv.active
               THEN [e |-> "swap_trees", from |-> last.ovBefore.desc.ws,
                     to |-> last.senv.active]
               ELSE [e |-> "swap_trees", from |-> last.senv.active, to |-> 0])
        /\ FxOf("set_focus") = <<>>

\* C11: when swap mode ends with a focus whose descriptor resolves, overview
\* mode is None afterwards; swap_trees is called exactly once if the stored
\* descriptor's workspace is the active one or still exists, across
\* workspaces iff the two differ, and not at all if the stored workspace is
\* gone; the focus is never set during the event, only from an idle callback
\* scheduled when the swap returns a target.
C11_SwapTreesOnceIfWorkspaceExists ==
    SwapEndsWithFocus =>
        LET old == last.ovBefore.desc.ws
            new == last.senv.active
        IN  /\ overview = OverviewNone
            /\ FxOf("set_focus") = <<>>
            /\ FxOf("move_tree") = <<>>
            /\ (old # new /\ old \notin last.senv.spaces) =>
                  FxOf("swap_trees") = <<>> /\ FxOf("insert_idle_set_focus") = <<>>
            /\ (old # new /\ old \in last.senv.spaces) =>
                  FxOf("swap_trees") = << [e |-> "swap_trees", from |-> old, to |-> new] >>
            /\ old = new =>
                  FxOf("swap_trees") = << [e |-> "swap_trees", from |-> new, to |-> 0] >>
            /\ Len(FxOf("insert_idle_set_focus")) =
                  (IF last.senv.some /\ FxOf("swap_trees") # <<>> THEN 1 ELSE 0)

\* swap mode ends by the release of its key with the focus on another
\* workspace than the stored one, and the trees are swapped across workspaces
C11_Witness ==
    /\ SwapEndsWithFocus /\ last.state = "Released"
    /\ last.ovBefore.desc.ws # last.senv.active
    /\ Len(FxOf("swap_trees")) = 1 /\ Len(FxOf("insert_idle_set_focus")) = 1

\* C15: in every reachable state the suppressed-key set holds at most one
\* entry for a raw keycode, whatever the sequence of presses and releases
\* (a keycode pressed again before its release, or pressed on two keyboards
\* of the seat, included).
C15_SuppressedKeycodesUnique ==
    \A i, j \in 1..Len(suppressed) :
        i # j => suppressed[i].code # suppressed[j].code

\* C16: after a Released event the suppressed-key set holds no entry of the
\* event's raw keycode, whichever rule of the filter handled the event; and
\* whenever no key is down (so the modifier mask is empty) and neither
\* overview mode nor resize mode is on, the set is empty.
C16_SuppressedDrainedOnRelease ==
    /\ (last.kind = "key" /\ last.state = "Released") =>
           \A i \in 1..Len(suppressed) : suppressed[i].code # last.code
    /\ (TotalHeld(held) = 0 /\ overview = OverviewNone /\ resize = ResizeNone) =>
           suppressed = <<>>

\* the last key goes up, its entry carried no token, the release was
\* forwarded and the set is empty again
C16_Witness ==
    /\ last.kind = "key" /\ last.state = "Released"
    /\ \E i \in 1..Len(last.skBefore) :
           last.skBefore[i].code = last.code /\ last.skBefore[i].token = 0
    /\ last.result = "Forward"
    /\ TotalHeld(held) = 0
    /\ overview = OverviewNone /\ resize = ResizeNone
    /\ suppressed = <<>>

\* C18: no key event (the filter and the action it dispatches) takes
\* overview mode from Started to None while resize mode goes from None to
\* Started, nor resize mode from Started to None while overview mode goes
\* from None to Started.
C18_NoModeHandOver ==
    last.kind = "key" =>
        /\ ~(/\ last.ovBefore.t # "None" /\ overview.t = "None"
             /\ last.rzBefore.t = "None" /\ resize.t = "Started")
        /\ ~(/\ last.rzBefore.t = "Started" /\ resize.t = "None"
             /\ last.ovBefore.t = "None" /\ overview.t # "None")

\* the key event got as far as the VT rule: it was no resize arrow key
ReachesVtRule ==
    /\ last.kind = "key"
    /\ LET rz == ResizeMaintenance(last.rzBefore, last.modifiers, last.code, last.state)
       IN  ~(rz.t = "Started"
             /\ resize_edge(modified_sym(last.code, last.modifiers)) # "NONE")

\* C19: a key press whose modified keysym is XF86Switch_VT_n, n in 1..12,
\* asks for exactly one VT switch, with argument n, adds one suppression
\* without a timer for the key and is intercepted without an action: no key
\* event reaches the client and no action is dispatched.  A failing switch
\* and a shortcuts inhibitor change none of this.
C19_VtSwitchIsIntercepted ==
    \A n \in 1..12 :
        (KeyEvent("Pressed") /\ ReachesVtRule
         /\ modified_sym(last.code, last.modifiers) = KEY_XF86Switch_VT_1 + (n - 1)) =>
            /\ FxOf("switch_vt") = << [e |-> "switch_vt", vt |-> n] >>
            /\ suppressed = Append(last.skBefore, [code |-> last.code, token |-> 0])
            /\ last.result = "Intercept"
            /\ last.action = NoAction
            /\ FxOf("key_to_client") = <<>>
            /\ FxOf("handle_action") = <<>>

\* Ctrl+Shift+F3 is XF86Switch_VT_12 in the keymap: the switch to VT 12
\* fails under a shortcuts inhibitor and the key is suppressed all the same
C19_Witness ==
    /\ KeyEvent("Pressed") /\ ReachesVtRule
    /\ modified_sym(last.code, last.modifiers) = KEY_XF86Switch_VT_12
    /\ last.vt_fail /\ last.inhibited
    /\ FxOf("switch_vt") = << [e |-> "switch_vt", vt |-> 12] >>
    /\ last.result = "Intercept"

\* C24: earlier filter rules win.  A press or release of an arrow key or of
\* h/j/k/l (by modified keysym) that arrives in resize mode is intercepted as
\* _ResizingInternal, whether or not the key matches a global shortcut, is
\* suppressed, or shortcuts are inhibited; and the press of a VT-switch
\* keysym is intercepted without an action and switches the VT, also when a
\* configured binding matches the key.
C24_EarlierRulesWin ==
    /\ (last.kind = "key" /\ last.rzBefore.t = "Started"
        /\ resize_edge(modified_sym(last.code, last.modifiers)) # "NONE") =>
           /\ last.result = "Intercept"
           /\ last.action.a = "_ResizingInternal"
           /\ last.action.state = last.state
           /\ FxOf("key_to_client") = <<>>
    /\ (KeyEvent("Pressed")
        /\ modified_sym(last.code, last.modifiers) >= KEY_XF86Switch_VT_1
        /\ modified_sym(last.code, last.modifiers) <= KEY_XF86Switch_VT_12) =>
           /\ last.result = "Intercept"
           /\ last.action = NoAction
           /\ Len(FxOf("switch_vt")) = 1
           /\ FxOf("key_to_client") = <<>>

\* Super+Shift+H in inward resize mode is the binding of Move(Left) as well,
\* without inhibitor, and resizes
C24_Witness ==
    /\ KeyEvent("Pressed") /\ last.rzBefore.t = "Started"
    /\ MatchingBindings # {} /\ ~last.inhibited
    /\ last.action.a = "_ResizingInternal"

\* C25: a key event that arrives in resize mode Started(p, dir) ends the mode
\* when it releases a key whose raw keysyms contain p.key; else, when the
\* modifiers differ from p.modifiers, it replaces the mode by the one of the
\* binding of exactly (modifiers, p.key) to a Resizing action, and ends it
\* when there is no such binding; else it leaves the mode as it is.  After
\* every key event the modifiers of a started resize mode are the current
\* modifiers.
C25_ResizeModeMaintenance ==
    /\ (last.kind = "key" /\ last.rzBefore.t = "Started") =>
           LET p == last.rzBefore.pattern
               rebound == {i \in DOMAIN key_bindings :
                              /\ key_bindings[i].binding.modifiers = last.modifiers
                              /\ key_bindings[i].binding.key = p.key
                              /\ key_bindings[i].action.a = "Resizing"}
           IN  IF last.state = "Released" /\ p.key \in raw_syms(last.code)
               THEN resize.t = "None"
               ELSE IF p.modifiers # last.modifiers
               THEN IF rebound = {} THEN resize.t = "None"
                    ELSE /\ resize.t = "Started"
                         /\ resize.pattern.modifiers = last.modifiers
                         /\ resize.pattern.key = p.key
                         /\ \E i \in rebound : resize.dir = key_bindings[i].action.dir
               ELSE resize = last.rzBefore
    /\ (last.kind = "key" /\ resize.t = "Started") =>
           resize.pattern.modifiers = last.modifiers

\* Shift pressed in outward resize mode: the mode goes over to the binding
\* of Super+Shift+R, which resizes inwards
C25_Witness ==
    /\ KeyEvent("Pressed") /\ last.rzBefore.t = "Started"
    /\ last.rzBefore.dir = "Outwards"
    /\ last.rzBefore.pattern.modifiers # last.modifiers
    /\ resize.t = "Started" /\ resize.dir = "Inwards"

\* a key event that dispatched SwapWindow
SwapWindowDispatched == last.kind = "key" /\ last.action.a = "SwapWindow"

\* the keyboard focus has a node descriptor on the active workspace
SwapDescriptor == last.env.descWs # 0

\* C30 as stated: SwapWindow changes nothing when the active output has a
\* fullscreen window, and in every other case installs the SwapWindowGrab
\* and starts the overview mode KeyboardSwap(pattern, descriptor).
C30_SwapWindowGrabAndMode ==
    SwapWindowDispatched =>
        IF last.env.fullscreen
        THEN FxOf("set_grab") = <<>> /\ overview.t # "KeyboardSwap"
        ELSE /\ Len(FxOf("set_grab")) = 1
             /\ overview = [t |-> "KeyboardSwap", pattern |-> last.pattern,
                            desc |-> [ws |-> last.env.descWs]]

\* C30, amended: SwapWindow installs the SwapWindowGrab exactly when the
\* active output has no fullscreen window and the keyboard focus has a node
\* descriptor on the active workspace; then the overview mode is
\* KeyboardSwap, with the pattern of the binding and that descriptor if no
\* mode was on; otherwise no grab is installed and no swap mode is started.
C30_SwapWindowNeedsFocusedNode ==
    SwapWindowDispatched =>
        IF ~last.env.fullscreen /\ SwapDescriptor
        THEN /\ FxOf("set_grab") = << [e |-> "set_grab", grab |-> "SwapWindowGrab"] >>
             /\ overview.t = "KeyboardSwap"
             /\ last.ovBefore.t = "None" =>
                    overview = [t |-> "KeyboardSwap", pattern |-> last.pattern,
                                desc |-> [ws |-> last.env.descWs]]
        ELSE /\ FxOf("set_grab") = <<>>
             /\ overview.t = "KeyboardSwap" => overview = last.ovBefore

\* Super+X on a focused node: the grab and the swap mode of the binding
C30_Witness ==
    /\ SwapWindowDispatched /\ ~last.env.fullscreen /\ SwapDescriptor
    /\ Len(FxOf("set_grab")) = 1
    /\ overview = [t |-> "KeyboardSwap", pattern |-> last.pattern,
                   desc |-> [ws |-> last.env.descWs]]

\* C34: a repeat timer is created by the press of an arrow key in resize
\* mode and holds the _ResizingInternal action that press returned (the
\* direction of the mode at the press, the edge of the key, Pressed); the
\* action of a registered timer never changes; a firing is a step of its own
\* that dispatches exactly the held action, whatever ResizeMode is by then,
\* and leaves OverviewMode, ResizeMode, the suppressed keys and the active
\* output as they were.
C34_RepeatTimerDispatchesCapturedResize ==
    [][ /\ \A t \in DOMAIN timers' \ DOMAIN timers :
              LET edge0 == resize_edge(modified_sym(last'.code, last'.modifiers))
              IN  /\ last'.kind = "key" /\ last'.state = "Pressed"
                  /\ resize'.t = "Started" /\ edge0 # "NONE"
                  /\ timers'[t].action = last'.action
                  /\ timers'[t].action =
                         [a |-> "_ResizingInternal", dir |-> resize'.dir,
                          edge |-> IF resize'.dir = "Inwards"
                                   THEN flip_direction(edge0) ELSE edge0,
                          state |-> "Pressed"]
        /\ \A t \in DOMAIN timers \cap DOMAIN timers' :
              timers'[t].action = timers[t].action
        /\ last'.kind = "timer" =>
              /\ last'.token \in DOMAIN timers
              /\ fx' = << [e |-> "handle_action", action |-> timers[last'.token].action],
                          [e |-> "resize", dir |-> timers[last'.token].action.dir,
                           edge |-> timers[last'.token].action.edge] >>
              /\ overview' = overview /\ resize' = resize
              /\ suppressed' = suppressed /\ active_output' = active_output
      ]_vars

\* a timer fires after resize mode has ended
C34_Witness ==
    /\ last.kind = "timer" /\ last.action.a = "_ResizingInternal"
    /\ resize.t = "None"
    /\ fx # <<>> /\ fx[Len(fx)].e = "resize"

\* C35: clients see balanced key events: when the press of a keycode was
\* forwarded, the next release of that keycode is forwarded too, whatever
\* mode was entered in between.  A released keycode that was down on every
\* keyboard that has it was last pressed, and it is outside icpt exactly when
\* no press of it since its last release was intercepted.
C35_ForwardedPressForwardedRelease ==
    (/\ KeyEvent("Released") /\ ~last.wasIcpt
     /\ held[last.code] + 1 = Cardinality({k \in Keyboards : last.code \in KeysOf(k)}))
    => last.result = "Forward"

\* C36: no repeat timer is orphaned: every timer registered on the event
\* loop has its token in the suppressed keys, paired with the keycode of the
\* press that created it, and every token that left the suppressed keys in
\* the last step was cancelled on the loop in that step.
C36_NoOrphanedRepeatTimer ==
    /\ \A t \in DOMAIN timers :
          \E i \in DOMAIN suppressed :
              suppressed[i] = [code |-> timers[t].code, token |-> t]
    /\ \A i \in DOMAIN last.skBefore :
          LET t == last.skBefore[i].token
          IN  (t # 0 /\ \A j \in DOMAIN suppressed : suppressed[j].token # t)
              => /\ t \notin DOMAIN timers
                 /\ \E k \in DOMAIN fx : fx[k] = [e |-> "loop_remove", token |-> t]

\* a key release cancels a timer that outlived resize mode
C36_Witness ==
    /\ KeyEvent("Released") /\ last.tmBefore # {}
    /\ last.rzBefore.t = "None"
    /\ \E i \in DOMAIN last.skBefore : last.skBefore[i].token \in last.tmBefore
    /\ \A t \in last.tmBefore : t \notin DOMAIN timers

\* C37: keyboard-triggered modes end once the keys are let go: when no key
\* of the seat is down (so the modifier mask is empty), OverviewMode is
\* neither KeyboardMove nor KeyboardSwap and ResizeMode is None, also for
\* bindings whose pattern has no modifiers.
C37_KeyboardModesEndWhenKeysAreUp ==
    (TotalHeld(held) = 0 /\ ModsOf(held) = {})
    => /\ overview.t \notin {"KeyboardMove", "KeyboardSwap"}
       /\ resize.t = "None"

\* C40: resize steps are bracketed: every _ResizingInternal(d, e, Released)
\* the filter dispatches is preceded, for the same key, by a dispatched
\* _ResizingInternal(d, e, Pressed) with no other Released in between, also
\* when a modifier switched the direction or the key was down before resize
\* mode started.  A dispatched press is an intercepted press, so the key is in
\* icpt when the release comes; and the repeat timer of the key, if it has
\* one, holds the action of that press.
C40_ResizeStepsAreBracketed ==
    [][ (/\ last'.kind = "key" /\ last'.state = "Released"
         /\ last'.action.a = "_ResizingInternal")
        => /\ last'.action.state = "Released"
           /\ last'.code \in icpt
           /\ \A t \in DOMAIN timers :
                 timers[t].code = last'.code
                 => /\ timers[t].action.dir = last'.action.dir
                    /\ timers[t].action.edge = last'.action.edge
      ]_vars

(***************************************************************************)
(* Claims about the action dispatcher (SpecDispatch)                       *)
(***************************************************************************)
DispatchOf(a) == last.kind = "dispatch" /\ last.action.a = a

\* the positions of fx where the dispatcher is entered with action a
EntriesOf(a) ==
    {i \in 1..Len(fx) : fx[i].e = "handle_action" /\ fx[i].action.a = a}

\* the activation NextWorkspace asked for has failed
NextWorkspaceFailed ==
    ActivateAnswer(last.numBefore[last.outBefore] + 1, last.env.act_ws) = "Err"

\* C12: NextWorkspace first asks for the activation of index active+1 on the
\* active output.  The dispatcher is entered again with NextOutput exactly
\* when that activation fails; then the active output becomes the next
\* output of the list if there is one and its activation succeeds, and
\* otherwise the active output and all active workspaces stay as they were.
C12_NextWorkspaceFallsBackToNextOutput ==
    DispatchOf("NextWorkspace") =>
        /\ Len(fx) >= 2
        /\ fx[2] = [e |-> "activate", output |-> last.outBefore,
                    idx |-> last.numBefore[last.outBefore] + 1]
        /\ (EntriesOf("NextOutput") # {}) <=> NextWorkspaceFailed
        /\ EntriesOf("PreviousOutput") = {}
        /\ NextWorkspaceFailed =>
              IF NextOutputOf(last.outBefore) # "" /\ last.env.act_out # "Err"
              THEN /\ active_output = NextOutputOf(last.outBefore)
                   /\ active_num = last.numBefore
              ELSE /\ active_output = last.outBefore
                   /\ active_num = last.numBefore
        /\ ~NextWorkspaceFailed =>
              /\ active_output = last.outBefore
              /\ Len(fx) = 2

\* a failed NextWorkspace on the first output that moved the seat to the
\* second one
C12_Witness ==
    /\ DispatchOf("NextWorkspace")
    /\ NextWorkspaceFailed
    /\ last.outBefore = Outputs[1]
    /\ active_output = Outputs[2]
    /\ EntriesOf("NextOutput") # {}

\* C26: PreviousWorkspace mirrors NextWorkspace: on the first workspace of
\* the active output, where there is no previous workspace, the dispatcher
\* is entered again with PreviousOutput, as it is with NextOutput when
\* NextWorkspace is dispatched on the last workspace.
C26_PreviousWorkspaceFallsBackOnFirst ==
    /\ (DispatchOf("PreviousWorkspace") /\ last.numBefore[last.outBefore] = 0) =>
           EntriesOf("PreviousOutput") # {}
    /\ (DispatchOf("NextWorkspace")
        /\ last.numBefore[last.outBefore] = MaxWorkspaces - 1) =>
           EntriesOf("NextOutput") # {}

\* C13: Workspace(n), MoveToWorkspace(n) and SendToWorkspace(n) make one
\* call, an activation or a move, whose target is index 9 for n = 0 and
\* index n-1 for n in 1..9 on the active output; whether the call fails or
\* not, nothing else is dispatched and the active output stays.
C13_NumberedWorkspaceTarget ==
    (last.kind = "dispatch"
       /\ last.action.a \in {"Workspace", "MoveToWorkspace", "SendToWorkspace"}) =>
        /\ Len(fx) = 2
        /\ fx[2].e = (IF last.action.a = "Workspace" THEN "activate"
                      ELSE "move_current_window")
        /\ fx[2].idx = (IF last.action.n = 0 THEN 9 ELSE last.action.n - 1)
        /\ (IF last.action.a = "Workspace" THEN fx[2].output ELSE fx[2].to)
             = last.outBefore
        /\ (last.action.a # "Workspace") => fx[2].from = last.outBefore
        /\ active_output = last.outBefore

\* a failed move to the workspace of key 0, and nothing after it
C13_Witness ==
    /\ DispatchOf("MoveToWorkspace")
    /\ last.action.n = 0
    /\ last.env.mcw_ws = "Err"
    /\ fx[2].idx = 9
    /\ last.outBefore = Outputs[2]

MoveToActions ==
    {"MoveToNextWorkspace", "MoveToPreviousWorkspace", "MoveToLastWorkspace",
     "MoveToNextOutput", "MoveToPreviousOutput"}

SendToActions ==
    {"SendToNextWorkspace", "SendToPreviousWorkspace", "SendToLastWorkspace",
     "SendToNextOutput", "SendToPreviousOutput"}

\* C14: every move_current_window call that results from a MoveTo* action,
\* the calls of the workspace-to-output fallback included, has follow = TRUE,
\* and every call that results from a SendTo* action has follow = FALSE.
C14_FollowFlagMatchesAction ==
    (last.kind = "dispatch" /\ last.action.a \in MoveToActions \cup SendToActions) =>
        \A i \in 1..Len(fx) :
            fx[i].e = "move_current_window" =>
                fx[i].follow = (last.action.a \in MoveToActions)

\* the workspace move of a dispatched MoveToPreviousWorkspace or
\* SendToPreviousWorkspace has failed
PreviousMoveFailed ==
    /\ last.kind = "dispatch"
    /\ last.action.a \in {"MoveToPreviousWorkspace", "SendToPreviousWorkspace"}
    /\ last.env.mcw_ws = "Err"

\* C27 as stated: a failed workspace move of MoveToPreviousWorkspace or
\* SendToPreviousWorkspace is followed by a next-output action.
C27_PreviousMoveFallsBackToNextOutput ==
    PreviousMoveFailed =>
        EntriesOf("MoveToNextOutput") \cup EntriesOf("SendToNextOutput") # {}

\* C27, amended: MoveToPreviousWorkspace and SendToPreviousWorkspace never
\* fall back to a next-output action.  When the workspace move fails, both
\* enter the dispatcher again with SendToPreviousOutput, once, and never with
\* MoveToPreviousOutput; when it does not fail, nothing else is dispatched.
C27_PreviousMoveFallsBackToSendToPreviousOutput ==
    (last.kind = "dispatch"
     /\ last.action.a \in {"MoveToPreviousWorkspace", "SendToPreviousWorkspace"}) =>
        /\ EntriesOf("MoveToNextOutput") = {}
        /\ EntriesOf("SendToNextOutput") = {}
        /\ EntriesOf("MoveToPreviousOutput") = {}
        /\ Cardinality(EntriesOf("SendToPreviousOutput")) =
               (IF PreviousMoveFailed THEN 1 ELSE 0)

\* a failed MoveToPreviousWorkspace that went on with SendToPreviousOutput
C27_Witness ==
    /\ PreviousMoveFailed
    /\ last.action.a = "MoveToPreviousWorkspace"
    /\ EntriesOf("SendToPreviousOutput") # {}

\* C28: Focus(dir) asks the active workspace for the next focus.  On
\* FocusResult::None it enters the dispatcher once with the navigation of
\* the direction under the workspace layout (horizontal: Left and Right are
\* the previous and next workspace, Up and Down the previous and next
\* output; vertical: the two axes exchanged) and with nothing for any other
\* direction; on Handled it does nothing more; on Some(target) it sets the
\* keyboard focus to the target and enters the dispatcher with nothing.
C28_FocusNavigatesByLayout ==
    DispatchOf("Focus") =>
        LET dir == last.action.dir
            horizontal == workspace_layout = "Horizontal"
            expected ==
                CASE dir = "Left" -> IF horizontal THEN "PreviousWorkspace"
                                     ELSE "PreviousOutput"
                  [] dir = "Right" -> IF horizontal THEN "NextWorkspace" ELSE "NextOutput"
                  [] dir = "Up" -> IF horizontal THEN "PreviousOutput"
                                   ELSE "PreviousWorkspace"
                  [] dir = "Down" -> IF horizontal THEN "NextOutput" ELSE "NextWorkspace"
                  [] OTHER -> ""
            entries == {i \in 2..Len(fx) : fx[i].e = "handle_action"}
            \* entered by the navigation itself when its activation fails
            fallback == IF expected = "PreviousWorkspace" THEN "PreviousOutput"
                        ELSE IF expected = "NextWorkspace" THEN "NextOutput" ELSE ""
        IN  /\ fx[2].e = "next_focus" /\ fx[2].dir = dir
            /\ (last.env.next_focus = "None" /\ expected # "") =>
                   /\ fx[3] = [e |-> "handle_action", action |-> [a |-> expected]]
                   /\ \A i \in entries : i > 3 => fx[i].action.a = fallback
                   /\ FxOf("set_focus") = <<>>
            /\ (last.env.next_focus = "None" /\ expected = "") =>
                   /\ Len(fx) = 2
                   /\ active_output = last.outBefore /\ active_num = last.numBefore
            /\ last.env.next_focus = "Handled" =>
                   /\ Len(fx) = 2
                   /\ active_output = last.outBefore /\ active_num = last.numBefore
            /\ last.env.next_focus = "Some" =>
                   /\ entries = {}
                   /\ FxOf("set_focus") = << [e |-> "set_focus", target |-> "target"] >>
                   /\ active_output = last.outBefore /\ active_num = last.numBefore

\* Focus(Up) under the vertical layout with nothing to focus: the previous
\* workspace is activated
C28_Witness ==
    /\ DispatchOf("Focus") /\ last.action.dir = "Up"
    /\ workspace_layout = "Vertical" /\ last.env.next_focus = "None"
    /\ EntriesOf("PreviousWorkspace") # {}
    /\ last.numBefore[last.outBefore] = 1 /\ active_num[active_output] = 0

C38_OutputChangeNotifiesSessions ==
    (/\ \/ last.kind = "motion"
        \/ /\ last.kind = "dispatch"
           /\ last.action.a \in {"NextOutput", "PreviousOutput", "NextWorkspace",
                                 "PreviousWorkspace", "Focus"}
     /\ active_output # last.outBefore)
    => /\ \A i \in DOMAIN OutputSessions(last.outBefore) :
             \E k \in DOMAIN fx :
                 fx[k] = [e |-> "cursor_leave", session |-> OutputSessions(last.outBefore)[i]]
       /\ \A i \in DOMAIN OutputSessions(active_output) :
             \E k \in DOMAIN fx :
                 fx[k] = [e |-> "cursor_enter", session |-> OutputSessions(active_output)[i]]

\* C39: every handle_action call terminates: the chain of dispatches it
\* starts, itself included, has at most 3 members and no action occurs in it
\* twice, for every workspace layout and every result of activate and
\* move_current_window.
C39_DispatchChainIsShort ==
    last.kind = "dispatch" =>
        LET chain == {i \in DOMAIN fx : fx[i].e = "handle_action"}
        IN  /\ 1 \in chain /\ fx[1].action = last.action
            /\ Cardinality(chain) <= 3
            /\ \A i, j \in chain : i # j => fx[i].action.a # fx[j].action.a

\* Move goes on to MoveToPreviousWorkspace, which fails and goes on to
\* SendToPreviousOutput
C39_Witness ==
    /\ DispatchOf("Move")
    /\ EntriesOf("MoveToPreviousWorkspace") # {}
    /\ EntriesOf("SendToPreviousOutput") # {}
    /\ Cardinality({i \in DOMAIN fx : fx[i].e = "handle_action"}) = 3

(***************************************************************************)
(* Claims about device hotplug (SpecDevices)                               *)
(***************************************************************************)
\* the seats whose registry records the device
SeatsOf(device) == {s \in SeatSet : has_device(devices[s], device)}

\* C17: a device id is recorded in the registry of at most one seat,
\* whichever seat was the last active one when it was announced, and after
\* a DeviceRemoved for a device no registry records it.
C17_DeviceInAtMostOneSeat ==
    /\ \A d \in DeviceIds : Cardinality(SeatsOf(d)) <= 1
    /\ last.kind = "removed" => SeatsOf(last.device) = {}

\* C33: the capability bookkeeping of a seat stays consistent over device
\* additions and removals, also when an id that is already registered is
\* added again with other capabilities.  The set kept by adding what
\* add_device returns and removing what remove_device returns equals the
\* union of the registered capabilities after a step exactly when it did
\* before the step and the union changed by the returned capabilities: an
\* addition enlarges the union of its seat by them, a removal shrinks the
\* union of the seat that lost the device by them.
C33_CapabilityBookkeepingConsistent ==
    LET CapsOf(map) == UNION {{map[d][i] : i \in 1..Len(map[d])} : d \in DOMAIN map}
        Returned == {last.caps[i] : i \in 1..Len(last.caps)}
    IN  /\ last.kind = "added" =>
            CapsOf(devices[last.seat]) = CapsOf(last.devBefore[last.seat]) \cup Returned
        /\ last.kind = "removed" =>
            /\ \A s \in SeatSet :
                   devices[s] # last.devBefore[s] =>
                       CapsOf(devices[s]) = CapsOf(last.devBefore[s]) \ Returned
            /\ devices = last.devBefore => Returned = {}

(***************************************************************************)
(* Claims about pointer motion                                             *)
(***************************************************************************)
\* the screencopy sessions of an output, given which outputs have a
\* fullscreen window
SessionSet(o, fs) ==
    {WorkspaceSessions(o)[i] : i \in DOMAIN WorkspaceSessions(o)}
    \cup (IF fs[o] THEN {FullscreenSessions(o)[i] : i \in DOMAIN FullscreenSessions(o)}
          ELSE {})
    \cup {OutputSessions(o)[i] : i \in DOMAIN OutputSessions(o)}

\* the positions in fx of the calls of kind e
FxAt(e) == {i \in DOMAIN fx : fx[i].e = e}

\* C6: after a relative pointer motion the location sent to the seat pointer
\* lies within the geometry of the active output, bounds included, and the
\* active output is the output that contains the un-clamped position, or
\* the previous active output if no output contains it.
C6_PointerWithinActiveOutput ==
    last.kind = "motion" =>
        LET g == OutputGeometry(active_output)
            u == last.unclamped
            hit == {o \in OutputSet :
                      /\ OutputGeometry(o).x <= u.x
                      /\ u.x < OutputGeometry(o).x + OutputGeometry(o).w
                      /\ OutputGeometry(o).y <= u.y
                      /\ u.y < OutputGeometry(o).y + OutputGeometry(o).h}
        IN  /\ u = [x |-> last.from.x + last.delta.x, y |-> last.from.y + last.delta.y]
            /\ g.x <= pointer_location.x /\ pointer_location.x <= g.x + g.w
            /\ g.y <= pointer_location.y /\ pointer_location.y <= g.y + g.h
            /\ \A i \in FxAt("motion") : fx[i].location = pointer_location
            /\ hit # {} => active_output \in hit
            /\ hit = {} => active_output = last.outBefore

\* a motion ends in no output: the pointer stays on B and is clamped to it
C6_Witness ==
    /\ last.kind = "motion" /\ active_output = "B" /\ last.outBefore = "B"
    /\ pointer_location # last.unclamped

\* C7: when a relative motion takes the pointer from output A to another
\* output B, every session of A gets exactly one cursor_leave, every
\* session of B one cursor_enter, all leaves come before all enters, and
\* all of them before the one change of the active output; when the output
\* stays the same there is no cursor_leave, cursor_enter or change.
C7_LeaveEnterBeforeActiveOutput ==
    last.kind = "motion" =>
        IF active_output # last.outBefore
        THEN /\ \A s \in SessionSet(last.outBefore, last.fs) :
                   Cardinality({i \in FxAt("cursor_leave") : fx[i].session = s}) = 1
             /\ \A s \in SessionSet(active_output, last.fs) :
                   Cardinality({i \in FxAt("cursor_enter") : fx[i].session = s}) = 1
             /\ \A i \in FxAt("cursor_leave") :
                   fx[i].session \in SessionSet(last.outBefore, last.fs)
             /\ \A i \in FxAt("cursor_enter") :
                   fx[i].session \in SessionSet(active_output, last.fs)
             /\ \A i \in FxAt("cursor_leave") : \A j \in FxAt("cursor_enter") : i < j
             /\ Cardinality(FxAt("set_active_output")) = 1
             /\ \A j \in FxAt("set_active_output") :
                   /\ fx[j].output = active_output
                   /\ \A i \in FxAt("cursor_leave") \cup FxAt("cursor_enter") : i < j
        ELSE FxAt("cursor_leave") \cup FxAt("cursor_enter") \cup FxAt("set_active_output") = {}

\* the pointer crosses from A to B, both with a fullscreen window
C7_Witness ==
    /\ last.kind = "motion" /\ last.outBefore = "A" /\ active_output = "B"
    /\ last.fs["A"] /\ last.fs["B"]
    /\ Cardinality(FxAt("cursor_leave")) = 4 /\ Cardinality(FxAt("cursor_enter")) = 3

\* C8: a relative pointer motion sends the seat pointer exactly one
\* relative_motion and exactly one motion, the relative_motion immediately
\* before the motion, both with the same focus target.
C8_RelativeMotionThenMotion ==
    last.kind = "motion" =>
        /\ Cardinality(FxAt("relative_motion")) = 1
        /\ Cardinality(FxAt("motion")) = 1
        /\ \A i \in FxAt("relative_motion") :
              /\ i + 1 \in FxAt("motion")
              /\ fx[i].focus = fx[i + 1].focus
              /\ fx[i].delta = last.delta
        /\ FxAt("button") \cup FxAt("axis") \cup FxAt("frame") = {}

\* a motion over a window, reported to the screencopy sessions as well
C8_Witness ==
    /\ last.kind = "motion" /\ last.cursor /\ FxAt("cursor_info") # {}
    /\ \E i \in FxAt("motion") : fx[i].focus = "element"

(***************************************************************************)
(* Claims about pointer buttons (SpecButton)                               *)
(***************************************************************************)
\* an ungrabbed button press with a convertible target
UngrabbedPress ==
    /\ last.kind = "button" /\ last.state = "Pressed"
    /\ last.has_seat /\ ~last.grabbed /\ last.convertible

\* C20: on an ungrabbed button press the keyboard focus goes to the target
\* that the layer precedence of surface_under selects among the focusable
\* ones: when surface_under finds a toplevel window (fullscreen, maximized
\* or an element of the workspace) under the pointer, that window gets the
\* keyboard focus; and when a layer surface under the pointer cannot take
\* the focus or reports no surface, a window behind it still gets it.
C20_ButtonFocusFollowsSurfaceUnder ==
    UngrabbedPress =>
        /\ surface_under(scene) \in {"fullscreen", "maximized", "element"} =>
               FxOf("set_focus") = << [e |-> "set_focus", target |-> surface_under(scene)] >>
        /\ (/\ scene.fullscreen \/ scene.maximized \/ scene.element
            /\ ~TakesFocus(scene.overlay)
            /\ scene.fullscreen \/ ~TakesFocus(scene.top)) =>
               FxOf("set_focus") # << [e |-> "set_focus", target |-> "None"] >>

\* C32: a button event of a device of the seat ends the overview mode
\* Started(Pointer(b)) exactly when it is the release of b, and leaves the
\* overview mode as it is otherwise; pressed or released, grabbed or not,
\* the event is sent to the seat pointer exactly once, as the last thing;
\* and a press under a pointer or keyboard grab sets no keyboard focus.
C32_PointerOverviewEndsOnItsButton ==
    (last.kind = "button" /\ last.has_seat) =>
        /\ (/\ last.ovBefore.t = "Pointer" /\ last.state = "Released"
            /\ last.button = last.ovBefore.button) => overview.t = "None"
        /\ ~(/\ last.ovBefore.t = "Pointer" /\ last.state = "Released"
             /\ last.button = last.ovBefore.button) => overview = last.ovBefore
        /\ FxOf("button") = << [e |-> "button", button |-> last.button,
                                state |-> last.state] >>
        /\ fx[Len(fx)].e = "button"
        /\ (last.state = "Released" \/ last.grabbed) => FxOf("set_focus") = <<>>

\* the release of the other button while the overview mode of the first is on
C32_Witness ==
    /\ last.kind = "button" /\ last.has_seat /\ last.state = "Released"
    /\ last.ovBefore.t = "Pointer" /\ last.button # last.ovBefore.button
    /\ overview = last.ovBefore /\ Len(FxOf("button")) = 1

(***************************************************************************)
(* Claims about absolute pointer motion (SpecAbsolute)                     *)
(***************************************************************************)
\* an absolute motion of a device of a seat
AbsoluteMotion == last.kind = "absolute" /\ last.has_seat

\* C21: surface_under returns the first candidate that hits, in the order
\* overlay layer, override-redirect window, fullscreen window when the output
\* has a fullscreen window, and overlay layer, top layer, override-redirect
\* window, maximized window, element, bottom layer, background layer when it
\* has none; a layer hits only if its own surface_under reports a surface;
\* the result is None only if no candidate hits.
C21_SurfaceUnderFirstHit ==
    AbsoluteMotion =>
        LET order == IF scene.fullscreen
                     THEN <<"overlay", "override_redirect", "fullscreen">>
                     ELSE <<"overlay", "top", "override_redirect", "maximized",
                            "element", "bottom", "background">>
            HitsAt(c) ==
                CASE c \in {"overlay", "top", "bottom", "background"} ->
                         HasSurface(scene[c])
                  [] c = "override_redirect" -> scene.or
                  [] c = "fullscreen" -> scene.fullscreen
                  [] c = "maximized" -> scene.maximized
                  [] c = "element" -> scene.element
            hits  == {i \in 1..Len(order) : HitsAt(order[i])}
            focus == fx[Len(fx)].focus
        IN  IF hits = {} THEN focus = "None"
            ELSE \E i \in hits : /\ focus = order[i]
                                 /\ \A j \in hits : i <= j

\* C22: an absolute pointer motion leaves the active output of the seat as
\* it was, sends no cursor_leave or cursor_enter and no relative_motion, and
\* sends exactly one motion, whose location is the origin of the active
\* output plus the position of the event scaled to the size of the output.
C22_AbsoluteMotionKeepsOutput ==
    AbsoluteMotion =>
        LET geometry == OutputGeometry(last.outBefore)
        IN  /\ active_output = last.outBefore
            /\ FxAt("cursor_leave") = {} /\ FxAt("cursor_enter") = {}
            /\ FxAt("set_active_output") = {} /\ FxAt("relative_motion") = {}
            /\ Cardinality(FxAt("motion")) = 1
            /\ \A i \in FxAt("motion") :
                   fx[i].location =
                       [x |-> geometry.x + (last.raw.x * geometry.w) \div AbsRange,
                        y |-> geometry.y + (last.raw.y * geometry.h) \div AbsRange]

\* an absolute motion on the second output, to a position that is not the
\* raw position, with the cursor reported to the sessions
C22_Witness ==
    /\ AbsoluteMotion /\ last.outBefore = Outputs[2] /\ last.cursor
    /\ last.raw = [x |-> AbsRange, y |-> 1]
    /\ pointer_location = [x |-> 2 * OutputSize, y |-> 1 + OutputSize \div AbsRange]
    /\ FxAt("cursor_info") # {}

(***************************************************************************)
(* Claims about events of unbound devices (SpecStray)                      *)
(***************************************************************************)
\* C23: an event of a device that no seat has is dropped: the modes of the
\* shell, the suppressed keys, the active output and workspaces, the keys
\* held and intercepted, the timers and the pointer location are as before,
\* no action is dispatched and nothing is sent to a client or a session.
C23_UnboundDeviceEventDropped ==
    last.kind = "dropped" =>
        /\ fx = <<>>
        /\ overview = last.ovBefore /\ resize = last.rzBefore
        /\ suppressed = last.skBefore /\ timers = last.timersBefore
        /\ active_output = last.outBefore /\ active_num = last.numBefore
        /\ held = last.heldBefore /\ icpt = last.icptBefore
        /\ pointer_location = last.locBefore

\* a key event of an unbound keyboard while the seat is in resize mode with
\* a suppressed key and a repeat timer
C23_Witness ==
    /\ last.kind = "dropped" /\ last.event = "Keyboard"
    /\ resize.t = "Started" /\ suppressed # <<>> /\ timers # <<>>

====
